---- MODULE Spec2Model ----
(***************************************************************************)
(* Model of the answer-enrichment pipeline of qagenerator:                 *)
(*   - the response cache            (src/src/cache_manager.py, AICache)   *)
(*   - the enrichment entry points   (src/src/ai_client.py, AIClient)      *)
(*   - the job orchestrator          (src/app.py, ScrapingJob and the      *)
(*                                    run_*_job worker threads)            *)
(* Strings are sequences of one-character strings, so that normalisation,  *)
(* splitting and slugging are computed character by character as the       *)
(* Python code computes them.                                              *)
(***************************************************************************)
EXTENDS Integers, Sequences, FiniteSets, TLC

VARIABLES
    \* ---- AICache (cache_manager.py) ----
    caches,          \* [openai |-> entries, claude |-> entries]: the two in-memory dicts, in insertion order
    files,           \* [openai |-> file, claude |-> file]: the two persisted JSON documents
    now,             \* datetime.now(), in hours
    bootFiles,       \* history: the persisted documents as they were when the cache was last loaded
    bootTime,        \* history: the time of that load
    storeLog,        \* history: every store_response call so far: [question, provider, model, response]
    lastOp,          \* history of the cache specifications: the last cache operation if it was a lookup (with arguments and result), a load or a shutdown
    \* ---- app.py ----
    current_ai_client,   \* the global AIClient: None or [provider, model]
    current_job,         \* the global job handle: NoJob or an index into jobs
    jobs,                \* every ScrapingJob created so far, in creation order
    threads,             \* per job, its worker thread: [target, pc, i, client]; client is the AIClient of the backend request in flight
    hist,                \* history, per job: [attempts, failed, upSinceStart, selected, enriched]
    backendUp,           \* environment: whether the backend service can be reached
    master,              \* data/qa_master_<topic>.json: record id -> record
    \* ---- backend adapters (ollama_client.py, ai_client.py) ----
    call                 \* one adapter call: its inputs, its position, the requests sent and waits made so far, its result

vars == <<caches, files, now, bootFiles, bootTime, storeLog, lastOp,
          current_ai_client, current_job, jobs, threads, hist, backendUp, master,
          call>>

cacheVars == <<caches, files, now, bootFiles, bootTime, storeLog, lastOp>>
appVars == <<current_ai_client, current_job, jobs, threads, hist, backendUp, master>>

\* Python's None, where a dict or an object may stand
None == [none |-> TRUE]

\* current_job = None
NoJob == 0

-----------------------------------------------------------------------------
(* Python str primitives *)

UpperToLower ==
    ("A" :> "a") @@ ("B" :> "b") @@ ("C" :> "c") @@ ("D" :> "d") @@ ("E" :> "e") @@
    ("F" :> "f") @@ ("G" :> "g") @@ ("H" :> "h") @@ ("I" :> "i") @@ ("J" :> "j") @@
    ("K" :> "k") @@ ("L" :> "l") @@ ("M" :> "m") @@ ("N" :> "n") @@ ("O" :> "o") @@
    ("P" :> "p") @@ ("Q" :> "q") @@ ("R" :> "r") @@ ("S" :> "s") @@ ("T" :> "t") @@
    ("U" :> "u") @@ ("V" :> "v") @@ ("W" :> "w") @@ ("X" :> "x") @@ ("Y" :> "y") @@
    ("Z" :> "z")

Whitespace == {" ", "\t", "\n", "\r"}

\* str.lower()
StrLower(s) == [i \in 1..Len(s) |-> IF s[i] \in DOMAIN UpperToLower THEN UpperToLower[s[i]] ELSE s[i]]

\* str.lstrip(chars) / str.rstrip(chars)
RECURSIVE StrLStrip(_, _)
StrLStrip(s, chars) ==
    IF s # <<>> /\ Head(s) \in chars THEN StrLStrip(Tail(s), chars) ELSE s

RECURSIVE StrRStrip(_, _)
StrRStrip(s, chars) ==
    IF s # <<>> /\ s[Len(s)] \in chars THEN StrRStrip(SubSeq(s, 1, Len(s) - 1), chars) ELSE s

\* str.strip()
StrStrip(s) == StrRStrip(StrLStrip(s, Whitespace), Whitespace)

\* str.startswith(prefix)
StrStartsWith(s, prefix) ==
    Len(prefix) <= Len(s) /\ SubSeq(s, 1, Len(prefix)) = prefix

\* str.split(): the maximal runs of non-whitespace characters, in order
RECURSIVE StrSplitFrom(_, _, _)
StrSplitFrom(s, word, acc) ==
    IF s = <<>> THEN (IF word = <<>> THEN acc ELSE Append(acc, word))
    ELSE IF Head(s) \in Whitespace
         THEN StrSplitFrom(Tail(s), <<>>, IF word = <<>> THEN acc ELSE Append(acc, word))
         ELSE StrSplitFrom(Tail(s), Append(word, Head(s)), acc)

StrSplit(s) == StrSplitFrom(s, <<>>, <<>>)

SeqToSet(s) == {s[i] : i \in 1..Len(s)}

-----------------------------------------------------------------------------
(* Provider and model names *)

OPENAI == <<"o", "p", "e", "n", "a", "i">>
CLAUDE == <<"c", "l", "a", "u", "d", "e">>
OLLAMA == <<"o", "l", "l", "a", "m", "a">>
Providers == {OPENAI, CLAUDE, OLLAMA}

M1 == <<"m", "1">>
M2 == <<"m", "2">>
Models == {M1, M2}

-----------------------------------------------------------------------------
(* Questions *)

\* Questions of the cache specifications.  QB has one word more than QA
\* (similarity 4/5), QF one more than QB (5/6); QC and QD are QA in another
\* word order and in another case with a final '?'; QG is QF in another word
\* order.
QA == <<"a"," ","b"," ","c"," ","d">>
QB == <<"a"," ","b"," ","c"," ","d"," ","e">>
QC == <<"b"," ","a"," ","c"," ","d">>
QD == <<"A"," ","b"," ","c"," ","d","?">>
QF == <<"a"," ","b"," ","c"," ","d"," ","e"," ","f">>
QG == <<"b"," ","a"," ","c"," ","d"," ","e"," ","f">>

CacheQuestions == {QA, QB, QC, QD, QF, QG}

\* Questions of a batch.  JD differs from JA only in case and the final '?',
\* so both normalise to the same text.
JA == <<"a"," ","b">>
JD == <<"A"," ","b","?">>

AppQuestions == {JA, JD}

-----------------------------------------------------------------------------
(* AICache: keys, normalisation, similarity *)

\* The variations dict of _normalize_question, in its insertion order.
Variations == <<
    [variant |-> <<"w","h","a","t"," ","i","s">>,          standard |-> <<"w","h","a","t"," ","i","s">>],
    [variant |-> <<"w","h","a","t"," ","a","r","e">>,      standard |-> <<"w","h","a","t"," ","a","r","e">>],
    [variant |-> <<"h","o","w"," ","d","o","e","s">>,      standard |-> <<"h","o","w"," ","d","o","e","s">>],
    [variant |-> <<"h","o","w"," ","d","o">>,              standard |-> <<"h","o","w"," ","d","o">>],
    [variant |-> <<"e","x","p","l","a","i","n">>,          standard |-> <<"e","x","p","l","a","i","n">>],
    [variant |-> <<"d","e","s","c","r","i","b","e">>,      standard |-> <<"e","x","p","l","a","i","n">>],
    [variant |-> <<"t","e","l","l"," ","m","e"," ","a","b","o","u","t">>,
                                                           standard |-> <<"e","x","p","l","a","i","n">>] >>

\* The for/break loop over variations: the first variant the text starts with
\* is replaced once (str.replace(variant, standard, 1) acts at position 0).
RECURSIVE ApplyVariations(_, _)
ApplyVariations(normalized, k) ==
    IF k > Len(Variations) THEN normalized
    ELSE IF StrStartsWith(normalized, Variations[k].variant)
         THEN Variations[k].standard
              \o SubSeq(normalized, Len(Variations[k].variant) + 1, Len(normalized))
         ELSE ApplyVariations(normalized, k + 1)

_normalize_question(question) ==
    LET stripped == StrLower(StrStrip(question))
        unpunct  == StrRStrip(stripped, {"?", "!", "."})
    IN  ApplyVariations(unpunct, 1)

-----------------------------------------------------------------------------
(* Phrasings of one question *)

\* str.upper(), the inverse of StrLower on letters
StrUpper(s) ==
    [i \in 1..Len(s) |->
        IF \E u \in DOMAIN UpperToLower : UpperToLower[u] = s[i]
        THEN CHOOSE u \in DOMAIN UpperToLower : UpperToLower[u] = s[i]
        ELSE s[i]]

\* Every space written twice
RECURSIVE DoubleSpaces(_)
DoubleSpaces(s) ==
    IF s = <<>> THEN <<>>
    ELSE IF Head(s) = " " THEN <<" ", " ">> \o DoubleSpaces(Tail(s))
    ELSE <<Head(s)>> \o DoubleSpaces(Tail(s))

Explain == <<"e", "x", "p", "l", "a", "i", "n">>

\* The opener 'explain' replaced by another opener
Reopened(s, opener) ==
    IF StrStartsWith(s, Explain) THEN opener \o SubSeq(s, Len(Explain) + 1, Len(s)) ELSE s

PhrasingKinds == {"outer_whitespace", "case", "trailing_punctuation", "inner_whitespace",
                  "describe", "tell_me_about"}

\* The question q phrased another way: the two texts differ only in the way
\* the kind names.
Rephrased(q, kind) ==
    IF kind = "outer_whitespace" THEN <<" ", "\t">> \o q \o <<"\n", " ">>
    ELSE IF kind = "case" THEN StrUpper(q)
    ELSE IF kind = "trailing_punctuation" THEN q \o <<"?", "!", ".">>
    ELSE IF kind = "inner_whitespace" THEN DoubleSpaces(q)
    ELSE IF kind = "describe" THEN Reopened(q, <<"d", "e", "s", "c", "r", "i", "b", "e">>)
    ELSE Reopened(q, <<"t", "e", "l", "l", " ", "m", "e", " ", "a", "b", "o", "u", "t">>)

\* Questions with an opener that is rewritten, with one that is kept, and
\* without opener but with a space before the question mark
NExplain == <<"e", "x", "p", "l", "a", "i", "n", " ", "x", " ", "y">>
NWhat == <<"w", "h", "a", "t", " ", "i", "s", " ", "x">>
NSpaced == <<"x", " ", "y", " ", "?">>

BaseQuestions == {NExplain, NWhat, NSpaced}

NormQuestions == BaseQuestions \cup {Rephrased(q, kind) : q \in BaseQuestions, kind \in PhrasingKinds}

\* Every question of the model, and the normalised texts of the phrasings
\* (which are normalised again)
Questions ==
    CacheQuestions \cup AppQuestions \cup NormQuestions
        \cup {_normalize_question(q) : q \in NormQuestions}

-----------------------------------------------------------------------------
(* AICache: keys and similarity *)

\* _normalize_question, evaluated once for each question of the model
Normalized == [question \in Questions |-> _normalize_question(question)]

\* f"{normalized_question}:{provider}:{model}"; the md5 digest of this text is
\* taken to be collision free, so the text itself stands for the digest.
_generate_cache_key(question, provider, model) ==
    Normalized[question] \o <<":">> \o provider \o <<":">> \o model

\* similarity = len(intersection) / len(union), kept as the exact fraction
\* [num, den]; 0.0 is [0, 1].
_calculate_similarity(question1, question2) ==
    LET words1 == SeqToSet(StrSplit(Normalized[question1]))
        words2 == SeqToSet(StrSplit(Normalized[question2]))
    IN  IF words1 = {} \/ words2 = {} THEN [num |-> 0, den |-> 1]
        ELSE [num |-> Cardinality(words1 \cap words2), den |-> Cardinality(words1 \cup words2)]

\* _calculate_similarity, evaluated once for each pair of questions of the model
Similarity == [pair \in Questions \X Questions |-> _calculate_similarity(pair[1], pair[2])]

\* threshold: float = 0.8
ThresholdNum == 8
ThresholdDen == 10

\* Mutant of FracGreater: >= in place of >.
FracGreaterOrEqual(a, b) == a.num * b.den >= b.num * a.den

\* a > b on exact fractions
FracGreater(a, b) == a.num * b.den > b.num * a.den

Threshold == [num |-> ThresholdNum, den |-> ThresholdDen]

-----------------------------------------------------------------------------
(* AICache: the two provider dicts and their files *)

\* max_age_hours: int = 24
MaxAgeHours == 24

\* A dict is a sequence of entries in insertion order; a key occurs at most once.
KeyIndex(cache, key) ==
    IF \E i \in 1..Len(cache) : cache[i].key = key
    THEN CHOOSE i \in 1..Len(cache) : cache[i].key = key
    ELSE 0

\* Mutant of DictSet: dict.setdefault, an existing key keeps its old entry.
DictSetKeepsOld(cache, entry) ==
    IF KeyIndex(cache, entry.key) = 0 THEN Append(cache, entry) ELSE cache

\* cache[key] = entry: an existing key keeps its position, a new key goes last.
DictSet(cache, entry) ==
    LET i == KeyIndex(cache, entry.key)
    IN  IF i = 0 THEN Append(cache, entry) ELSE [cache EXCEPT ![i] = entry]

\* self.openai_cache if provider == "openai" else self.claude_cache
CacheOf(provider) == IF provider = OPENAI THEN "openai" ELSE "claude"

\* Mutant of FindSimilarFrom: similarity >= best_similarity, so that of
\* equally similar entries the last one wins.
RECURSIVE FindSimilarLastOnTies(_, _, _, _, _)
FindSimilarLastOnTies(question, cache, k, best_match, best_similarity) ==
    IF k > Len(cache) THEN best_match
    ELSE LET similarity == Similarity[<<question, cache[k].original_question>>]
         IN  IF FracGreater(similarity, Threshold) /\ FracGreaterOrEqual(similarity, best_similarity)
             THEN FindSimilarLastOnTies(question, cache, k + 1, k, similarity)
             ELSE FindSimilarLastOnTies(question, cache, k + 1, best_match, best_similarity)

\* The loop of _find_similar_cached_question from entry k on, carrying
\* best_match (a position, 0 for None) and best_similarity.
RECURSIVE FindSimilarFrom(_, _, _, _, _)
FindSimilarFrom(question, cache, k, best_match, best_similarity) ==
    IF k > Len(cache) THEN best_match
    ELSE LET similarity == Similarity[<<question, cache[k].original_question>>]
         IN  IF FracGreater(similarity, Threshold) /\ FracGreater(similarity, best_similarity)
             THEN FindSimilarFrom(question, cache, k + 1, k, similarity)
             ELSE FindSimilarFrom(question, cache, k + 1, best_match, best_similarity)

\* Returns the position of the best match in the dict, 0 for None.
_find_similar_cached_question(question, cache) ==
    FindSimilarFrom(question, cache, 1, 0, [num |-> 0, den |-> 1])

\* Mutant of get_cached_response: an entry older than max_age is passed over.
get_cached_responseFresh(cs, question, provider, model) ==
    LET cache_key == _generate_cache_key(question, provider, model)
        cache     == cs[CacheOf(provider)]
        exact     == KeyIndex(cache, cache_key)
    IN  IF exact # 0 /\ now - cache[exact].timestamp.t < MaxAgeHours
        THEN cache[exact].response
        ELSE None

\* Returns the cached response, or None.
get_cached_response(cs, question, provider, model) ==
    LET cache_key   == _generate_cache_key(question, provider, model)
        cache       == cs[CacheOf(provider)]
        exact       == KeyIndex(cache, cache_key)
        similar_key == _find_similar_cached_question(question, cache)
    IN  IF exact # 0 THEN cache[exact].response
        ELSE IF similar_key # 0 THEN cache[similar_key].response
        ELSE None

\* Mutant of CacheEntry: the entry is keyed by the question text alone.
CacheEntryKeyedByQuestion(question, provider, model, resp, t) ==
    [key               |-> question,
     original_question |-> question,
     provider          |-> provider,
     model             |-> model,
     response          |-> resp,
     timestamp         |-> [valid |-> TRUE, t |-> t]]

\* The cache_entry dict built by store_response.
CacheEntry(question, provider, model, resp, t) ==
    [key               |-> _generate_cache_key(question, provider, model),
     original_question |-> question,
     provider          |-> provider,
     model             |-> model,
     response          |-> resp,
     timestamp         |-> [valid |-> TRUE, t |-> t]]

\* The dicts after store_response.
store_response(cs, question, provider, model, resp, t) ==
    [cs EXCEPT ![CacheOf(provider)] =
        DictSet(cs[CacheOf(provider)], CacheEntry(question, provider, model, resp, t))]

\* Mutant of _save_cache: json.dump of the newest entry in place of the dict.
_save_cacheNewestEntry(fs, cs, provider, ok) ==
    IF ok /\ Len(cs[CacheOf(provider)]) > 0
    THEN [fs EXCEPT ![CacheOf(provider)] =
             [kind |-> "json",
              entries |-> <<cs[CacheOf(provider)][Len(cs[CacheOf(provider)])]>>]]
    ELSE fs

\* _save_cache: json.dump of the whole dict; an I/O error is logged and swallowed.
_save_cache(fs, cs, provider, ok) ==
    IF ok THEN [fs EXCEPT ![CacheOf(provider)] = [kind |-> "json", entries |-> cs[CacheOf(provider)]]]
    ELSE fs

\* Mutant of NotExpired: <= in place of <.
NotExpiredInclusive(entry, t) == t - entry.timestamp.t <= MaxAgeHours

\* now - cached_time < self.max_age
NotExpired(entry, t) == t - entry.timestamp.t < MaxAgeHours

\* The loop of _clean_expired_entries: an entry whose timestamp cannot be read
\* raises inside the try and is dropped.
RECURSIVE CleanFrom(_, _, _, _)
CleanFrom(cache, k, cleaned, t) ==
    IF k > Len(cache) THEN cleaned
    ELSE IF cache[k].timestamp.valid /\ NotExpired(cache[k], t)
         THEN CleanFrom(cache, k + 1, Append(cleaned, cache[k]), t)
         ELSE CleanFrom(cache, k + 1, cleaned, t)

_clean_expired_entries(cache, t) == CleanFrom(cache, 1, <<>>, t)

\* What can be found at the path of a cache file besides a JSON mapping of
\* entries: nothing; a file open() cannot read; text json.load rejects; a JSON
\* value that is no mapping (a list, a number, null), on which .items() raises.
BadFileKinds == {"unreadable", "invalid_json", "not_mapping"}

\* The try block of _load_cache raises: in open(), in json.load() or, for a
\* value without .items(), in _clean_expired_entries outside its inner try.
LoadRaises(file) == file.kind \in BadFileKinds

\* Mutant of LoadExceptionCaught: except json.JSONDecodeError.
LoadExceptionCaughtIfDecodeError(file) == file.kind = "invalid_json"

\* except Exception as e: whatever the try block raised is caught and logged.
LoadExceptionCaught(file) == file.kind \in BadFileKinds \cup {"absent", "json"}

\* _load_cache raises to AICache.__init__, which has no handler.
LoadCrashes(file) == LoadRaises(file) /\ ~LoadExceptionCaught(file)

\* A missing file, and every exception caught, give {}.
_load_cache(file, t) ==
    IF file.kind = "absent" THEN <<>>
    ELSE IF LoadRaises(file) THEN <<>>
    ELSE _clean_expired_entries(file.entries, t)

-----------------------------------------------------------------------------
(* Record identifiers (ollama_client.py) *)

LowerAlnum == {"a","b","c","d","e","f","g","h","i","j","k","l","m","n","o","p","q","r","s",
               "t","u","v","w","x","y","z","0","1","2","3","4","5","6","7","8","9"}

\* re.sub(r'[^a-z0-9]+', '-', text): each maximal run of other characters becomes one '-'
RECURSIVE SubNonAlnum(_, _)
SubNonAlnum(text, acc) ==
    IF text = <<>> THEN acc
    ELSE IF Head(text) \in LowerAlnum THEN SubNonAlnum(Tail(text), Append(acc, Head(text)))
    ELSE IF acc # <<>> /\ acc[Len(acc)] = "-"
         THEN SubNonAlnum(Tail(text), acc)
         ELSE SubNonAlnum(Tail(text), Append(acc, "-"))

\* _slugify: lower, non-alphanumeric runs to '-', strip('-'), collapse '-+'.
\* A literal '-' is itself non-alphanumeric, so after the first substitution no
\* two '-' are adjacent and the final collapse changes nothing.
_slugify(text) == StrRStrip(StrLStrip(SubNonAlnum(StrLower(text), <<>>), {"-"}), {"-"})

\* slug[:30]
SlugLen == 30

\* f"question-{slug}-{h}"; h, the first 6 hex digits of md5(question), is taken
\* to be collision free on the questions of the model: the question stands for it.
_make_id(question) ==
    [slug |-> SubSeq(_slugify(question), 1, IF Len(_slugify(question)) < SlugLen
                                            THEN Len(_slugify(question)) ELSE SlugLen),
     h    |-> question]

-----------------------------------------------------------------------------
(* Inputs of the cache specifications *)

Client(provider, model) == [provider |-> provider, model |-> model]

CacheClients == {Client(OPENAI, M1), Client(CLAUDE, M1), Client(CLAUDE, M2), Client(OLLAMA, M1)}

\* Number of store_response calls explored
MaxStores == 2

AbsentFile == [kind |-> "absent"]

\* The record a successful enrichment of question returns: one top-level key
\* and a body; n numbers the generations so that two records for the same
\* question can be told apart.  The key is the one OllamaClient builds; a
\* hosted model, which chooses the key of its answer itself, is taken to name
\* the question the same way.
Record(question, n) == [id |-> _make_id(question), n |-> n]

-----------------------------------------------------------------------------
(* Cache operations as actions *)

InitCache ==
    /\ caches = [openai |-> <<>>, claude |-> <<>>]
    /\ files = [openai |-> AbsentFile, claude |-> AbsentFile]
    /\ now = 0
    /\ bootFiles = [openai |-> AbsentFile, claude |-> AbsentFile]
    /\ bootTime = 0
    /\ storeLog = <<>>
    /\ lastOp = [op |-> "init"]

\* AICache.store_response(question, provider, model, response)
Store(question, provider, model, resp, saveOk) ==
    /\ caches' = store_response(caches, question, provider, model, resp, now)
    /\ files' = _save_cache(files, caches', provider, saveOk)
    /\ storeLog' = Append(storeLog, [question |-> question, provider |-> provider,
                                     model |-> model, response |-> resp])
    /\ lastOp' = [op |-> "other"]
    /\ UNCHANGED <<now, bootFiles, bootTime>>

\* AICache.get_cached_response(question, provider, model); the hit/miss
\* statistics it counts are not part of the model.
Lookup(question, provider, model) ==
    /\ lastOp' = [op |-> "lookup", question |-> question, provider |-> provider, model |-> model,
                  result |-> get_cached_response(caches, question, provider, model)]
    /\ UNCHANGED <<caches, files, now, bootFiles, bootTime, storeLog>>

CacheStore ==
    /\ Len(storeLog) < MaxStores
    /\ \E q \in CacheQuestions, c \in CacheClients :
          Store(q, c.provider, c.model, Record(q, Len(storeLog) + 1), TRUE)
    /\ UNCHANGED <<appVars, call>>

\* A lookup leaves the dicts as they are, so what a run of lookups can return
\* is decided by the first of them: after a lookup only the same lookup is
\* repeated, and every (dicts, lookup) pair is still reached.
CacheLookup ==
    /\ \E q \in CacheQuestions, c \in CacheClients :
          /\ lastOp.op = "lookup" =>
                /\ q = lastOp.question
                /\ c = Client(lastOp.provider, lastOp.model)
          /\ Lookup(q, c.provider, c.model)
    /\ UNCHANGED <<appVars, call>>

-----------------------------------------------------------------------------
(* app.py: initial state (module load) *)

EmptyDict == <<>>

\* No adapter call is being followed.
NoCall == [fn |-> "none"]

InitOrchestrator ==
    /\ current_ai_client = None
    /\ current_job = NoJob
    /\ jobs = <<>>
    /\ threads = <<>>
    /\ hist = <<>>
    /\ backendUp = TRUE
    /\ master = EmptyDict

InitApp == InitOrchestrator /\ call = NoCall

-----------------------------------------------------------------------------
(* The cache on its own: stores and lookups in one process lifetime *)

InitCacheOnly == InitCache /\ InitApp

NextCache == CacheStore \/ CacheLookup

SpecCache == InitCacheOnly /\ [][NextCache]_vars

-----------------------------------------------------------------------------
(* Claims about the cache within one process lifetime (SpecCache) *)

IsLookup == lastOp.op = "lookup"

LookupKey == _generate_cache_key(lastOp.question, lastOp.provider, lastOp.model)

StoreKey(i) == _generate_cache_key(storeLog[i].question, storeLog[i].provider, storeLog[i].model)

\* The stores made under the key of the last lookup.
StoresUnderLookupKey == {i \in 1..Len(storeLog) : StoreKey(i) = LookupKey}

MaxOf(S) == CHOOSE i \in S : \A j \in S : j <= i

\* C7: a lookup under a key that has been stored returns the record of the
\* most recent store made under that exact key, whatever else the cache holds.
C7_ExactMatchIdempotence ==
    (IsLookup /\ StoresUnderLookupKey # {})
        => lastOp.result = storeLog[MaxOf(StoresUnderLookupKey)].response

\* C7 witness: the same (question, backend, model) was stored twice and then
\* looked up; the lookup returned the second record.
C7_Witness ==
    /\ IsLookup
    /\ Len(storeLog) = 2
    /\ \A i \in {1, 2} : /\ storeLog[i].question = lastOp.question
                         /\ storeLog[i].provider = lastOp.provider
                         /\ storeLog[i].model = lastOp.model
    /\ lastOp.result = storeLog[2].response
    /\ lastOp.result # storeLog[1].response

\* The normalized word set of a question, and Jaccard similarity of two
\* questions compared with 0.8, as the specification states them.
WordSet(question) == SeqToSet(StrSplit(_normalize_question(question)))

JaccardAtLeastThreshold(q1, q2) ==
    /\ WordSet(q1) \cup WordSet(q2) # {}
    /\ 10 * Cardinality(WordSet(q1) \cap WordSet(q2)) >= 8 * Cardinality(WordSet(q1) \cup WordSet(q2))

JaccardAboveThreshold(q1, q2) ==
    /\ WordSet(q1) \cup WordSet(q2) # {}
    /\ 10 * Cardinality(WordSet(q1) \cap WordSet(q2)) > 8 * Cardinality(WordSet(q1) \cup WordSet(q2))

\* The case of C8: the dict the lookup scans holds one entry, stored for
\* another key under the backend and model of the lookup.
SingleCandidate ==
    /\ IsLookup
    /\ Len(caches[CacheOf(lastOp.provider)]) = 1
    /\ caches[CacheOf(lastOp.provider)][1].provider = lastOp.provider
    /\ caches[CacheOf(lastOp.provider)][1].model = lastOp.model
    /\ caches[CacheOf(lastOp.provider)][1].key # LookupKey

TheCandidate == caches[CacheOf(lastOp.provider)][1]

\* C8 as claimed: with Jaccard similarity >= 0.8 (0.8 included) and no exact
\* entry and no other candidate, the lookup for Q2 returns Q1's record.
C8_SimilarAtLeastThresholdHits ==
    (SingleCandidate /\ JaccardAtLeastThreshold(TheCandidate.original_question, lastOp.question))
        => lastOp.result = TheCandidate.response

\* C8 amended: with Jaccard similarity strictly above 0.8 the lookup for Q2
\* returns Q1's record; at 0.8 or below it is a miss.
C8_SimilarAboveThresholdHits ==
    SingleCandidate =>
        IF JaccardAboveThreshold(TheCandidate.original_question, lastOp.question)
        THEN lastOp.result = TheCandidate.response
        ELSE lastOp.result = None

\* C8 witness: a lookup whose only candidate has similarity strictly between
\* 0.8 and 1 (5 of 6 words shared) returned that candidate's record.
C8_Witness ==
    /\ SingleCandidate
    /\ JaccardAboveThreshold(TheCandidate.original_question, lastOp.question)
    /\ WordSet(TheCandidate.original_question) # WordSet(lastOp.question)
    /\ lastOp.result = TheCandidate.response

\* C9: a lookup never returns a record that was stored under another backend
\* or another model.
C9_SameBackendAndModel ==
    (IsLookup /\ lastOp.result # None) =>
        \A i \in 1..Len(storeLog) :
            storeLog[i].response = lastOp.result
                => /\ storeLog[i].provider = lastOp.provider
                   /\ storeLog[i].model = lastOp.model

-----------------------------------------------------------------------------
(* The cache across process restarts: stores, the clock, file damage, loads *)

LoadQuestions == {QA, QB}
LoadClients == {Client(OPENAI, M1), Client(CLAUDE, M1)}
CacheFiles == {"openai", "claude"}

\* Hours the clock advances in one step, and the last hour explored
TickHours == 12
MaxTime == 36

\* The process is down between Shutdown and the next Restart.
Down == lastOp.op = "down"

LoadStore ==
    /\ ~Down
    /\ Len(storeLog) < MaxStores
    /\ \E q \in LoadQuestions, c \in LoadClients, saveOk \in BOOLEAN :
          Store(q, c.provider, c.model, Record(q, Len(storeLog) + 1), saveOk)
    /\ UNCHANGED <<appVars, call>>

LoadLookup ==
    /\ ~Down
    /\ \E q \in LoadQuestions, c \in LoadClients :
          /\ lastOp.op = "lookup" =>
                /\ q = lastOp.question
                /\ c = Client(lastOp.provider, lastOp.model)
          /\ Lookup(q, c.provider, c.model)
    /\ UNCHANGED <<appVars, call>>

Tick ==
    /\ now + TickHours <= MaxTime
    /\ now' = now + TickHours
    /\ lastOp' = IF Down THEN lastOp ELSE [op |-> "other"]
    /\ UNCHANGED <<caches, files, bootFiles, bootTime, storeLog>>
    /\ UNCHANGED <<appVars, call>>

NoCaches == [f \in CacheFiles |-> <<>>]

\* The process ends; its dicts are gone, the files stay. lastOp records the
\* observation "remembered" of the process that ended.
ProcessEnds(remembered) ==
    /\ ~Down
    /\ lastOp' = [op |-> "down", caches |-> remembered]
    /\ caches' = NoCaches
    /\ UNCHANGED <<files, now, bootFiles, bootTime, storeLog>>
    /\ UNCHANGED <<appVars, call>>

Shutdown == ProcessEnds(NoCaches)

\* Environment, while the process is down: an entry of a persisted file loses
\* its readable timestamp (written by another tool, edited by hand).
TamperEntry ==
    /\ Down
    /\ \E f \in CacheFiles :
          /\ files[f].kind = "json"
          /\ \E i \in 1..Len(files[f].entries) :
                /\ files[f].entries[i].timestamp.valid
                /\ files' = [files EXCEPT ![f].entries[i].timestamp.valid = FALSE]
    /\ UNCHANGED <<caches, now, bootFiles, bootTime, storeLog, lastOp>>
    /\ UNCHANGED <<appVars, call>>

\* Environment, while the process is down: what is at the path of a cache file
\* becomes something other than a readable JSON mapping.
CorruptFile ==
    /\ Down
    /\ \E f \in CacheFiles, kind \in BadFileKinds :
          /\ files[f].kind \in {"json", "absent"}
          /\ files' = [files EXCEPT ![f] = [kind |-> kind]]
    /\ UNCHANGED <<caches, now, bootFiles, bootTime, storeLog, lastOp>>
    /\ UNCHANGED <<appVars, call>>

\* A new process: get_cache() constructs AICache, which loads both files.
Restart ==
    /\ Down
    /\ IF \E f \in CacheFiles : LoadCrashes(files[f])
       THEN /\ lastOp' = [op |-> "crashed"]
            /\ UNCHANGED caches
       ELSE /\ lastOp' = [op |-> "load", before |-> lastOp.caches]
            /\ caches' = [f \in CacheFiles |-> _load_cache(files[f], now)]
    /\ bootFiles' = files
    /\ bootTime' = now
    /\ UNCHANGED <<files, now, storeLog>>
    /\ UNCHANGED <<appVars, call>>

NextLoad == LoadStore \/ LoadLookup \/ Tick \/ Shutdown \/ TamperEntry \/ CorruptFile \/ Restart

SpecLoad == InitCacheOnly /\ [][NextLoad]_vars

\* Restarts of an undisturbed cache directory: the only writer of the files
\* is _save_cache, and the process that ends is observed with its dicts.
ShutdownObserved == ProcessEnds(caches)

NextRoundTrip == LoadStore \/ Tick \/ ShutdownObserved \/ Restart

SpecRoundTrip == InitCacheOnly /\ [][NextRoundTrip]_vars

-----------------------------------------------------------------------------
(* Claims about loading (SpecLoad) *)

\* An entry whose timestamp is readable and less than max_age in the past at
\* the time of the last load.
FreshAtBoot(entry) ==
    /\ entry.timestamp.valid
    /\ bootTime - entry.timestamp.t < MaxAgeHours

BootEntries(f) == IF bootFiles[f].kind = "json" THEN bootFiles[f].entries ELSE <<>>

\* C10: right after a load each dict holds exactly the entries of its file that
\* were less than max_age old, in file order; and no later lookup returns the
\* record of an entry that was expired, or had no readable timestamp, at load.
C10_ExpiredAbsentAfterLoad ==
    /\ lastOp.op = "load" =>
          \A f \in CacheFiles : caches[f] = SelectSeq(BootEntries(f), FreshAtBoot)
    /\ (IsLookup /\ lastOp.result # None) =>
          \A f \in CacheFiles : \A i \in 1..Len(BootEntries(f)) :
              ~FreshAtBoot(BootEntries(f)[i]) => BootEntries(f)[i].response # lastOp.result

\* C10 witness: a load of a file holding one entry exactly max_age old, which
\* was dropped, and a younger one, which was kept.
C10_Witness ==
    /\ lastOp.op = "load"
    /\ \E f \in CacheFiles :
          /\ Len(BootEntries(f)) = 2
          /\ Len(caches[f]) = 1
          /\ \E i \in 1..2 : /\ BootEntries(f)[i].timestamp.valid
                             /\ bootTime - BootEntries(f)[i].timestamp.t = MaxAgeHours

\* C11: loading never fails: construction of the cache always completes; a
\* file that is missing, unreadable, not JSON or not a mapping gives an empty
\* dict; in a mapping an entry whose timestamp cannot be read is dropped and
\* every other entry is kept unless it is expired.
C11_LoadNeverFails ==
    /\ lastOp.op # "crashed"
    /\ lastOp.op = "load" =>
          \A f \in CacheFiles :
              IF bootFiles[f].kind \in BadFileKinds \cup {"absent"}
              THEN caches[f] = <<>>
              ELSE /\ \A i \in 1..Len(bootFiles[f].entries) :
                        LET entry == bootFiles[f].entries[i]
                        IN  IF ~entry.timestamp.valid
                            THEN KeyIndex(caches[f], entry.key) = 0
                            ELSE NotExpired(entry, bootTime) =>
                                    /\ KeyIndex(caches[f], entry.key) # 0
                                    /\ caches[f][KeyIndex(caches[f], entry.key)] = entry
                   /\ Len(caches[f]) <= Len(bootFiles[f].entries)

\* C11 witness: a load that found one file unusable (unreadable, not JSON or
\* not a mapping) and in the other an entry without a readable timestamp next
\* to a good one, which it kept.
C11_Witness ==
    /\ lastOp.op = "load"
    /\ \E f, g \in CacheFiles :
          /\ bootFiles[f].kind \in BadFileKinds
          /\ bootFiles[g].kind = "json"
          /\ Len(bootFiles[g].entries) = 2
          /\ Len(caches[g]) = 1
          /\ \E i \in 1..2 : ~bootFiles[g].entries[i].timestamp.valid

\* The lookup of the i-th stored (question, backend, model) in the dicts cs.
StoredLookup(cs, i) ==
    get_cached_response(cs, storeLog[i].question, storeLog[i].provider, storeLog[i].model)

\* The load at bootTime was within max_age of every entry of the dict the
\* previous process held for f.
WithinMaxAge(f) ==
    \A k \in 1..Len(lastOp.before[f]) : NotExpired(lastOp.before[f][k], bootTime)

\* The file found at boot is the dict the previous process ended with: its
\* last write of f went through.
WrittenThrough(f) == bootFiles[f] = [kind |-> "json", entries |-> lastOp.before[f]]

\* A store_response step leaves the other file alone and makes the provider's
\* file the whole dict, or leaves it as it was when the write raised.
StoreWritesWholeCacheOrNothing ==
    Len(storeLog') > Len(storeLog) =>
        LET f == CacheOf(storeLog'[Len(storeLog')].provider)
        IN  /\ \A g \in CacheFiles \ {f} : files'[g] = files[g]
            /\ \/ files'[f] = [kind |-> "json", entries |-> caches'[f]]
               \/ files'[f] = files[f]

RoundTripOfWrittenCache ==
    lastOp.op = "load" =>
        \A i \in 1..Len(storeLog) :
            LET f == CacheOf(storeLog[i].provider)
            IN  (WrittenThrough(f) /\ WithinMaxAge(f))
                    => StoredLookup(caches, i) = StoredLookup(lastOp.before, i)

-----------------------------------------------------------------------------
(* app.py: the job orchestrator *)

\* The clients /api/set-ai-provider is asked for; the OpenAI client comes in
\* as the default of /api/start-scraping.
AppClients == {Client(OLLAMA, M1)}

\* Number of batches started, and of items in a batch
MaxJobs == 2
MaxItems == 2

\* One element of job.scraped_data: the question and whether an answer text
\* comes with it ('answer': None in a bulk batch).
Item(question, has_answer) == [question |-> question, has_answer |-> has_answer]

\* Lists of at most MaxItems items with pairwise distinct questions.
Batches(items) ==
    {b \in UNION {[1..n -> items] : n \in 0..MaxItems} :
        \A i, k \in DOMAIN b : i # k => b[i].question # b[k].question}

\* Textarea lines of /api/process-bulk-questions
BulkItems == {Item(q, FALSE) : q \in AppQuestions}

\* selected_questions of /api/start-scraping: the frontend sends scraped items
\* back, whose answer may be missing.
SelectedItems == {Item(JA, TRUE), Item(JD, FALSE)}

\* What InterviewScraper returns: items with their answers.
ScrapedItems == {Item(JA, TRUE)}

\* ScrapingJob.__init__
ScrapingJob(scraped_data) ==
    [status              |-> "starting",
     progress            |-> [num |-> 0, den |-> 1],
     total_questions     |-> Len(scraped_data),
     processed_questions |-> 0,
     scraped_data        |-> scraped_data,
     processed_data      |-> EmptyDict,
     errors              |-> <<>>]

\* threading.Thread(target=...).start(): the thread has not run yet.
Thread(target) == [target |-> target, pc |-> "start", i |-> 1, client |-> None]

\* History kept per job: the items the loop has taken up, in order; how many
\* of them failed; whether the backend has been reachable at any moment since
\* the batch was started; the client that was current when the batch was
\* started; the enrichment calls made for the batch.
NewHist(client) ==
    [attempts |-> <<>>, failed |-> 0, upSinceStart |-> backendUp,
     selected |-> client, enriched |-> <<>>]

\* if current_job and current_job.status in ['scraping', 'processing']
JobRunning ==
    /\ current_job # NoJob
    /\ jobs[current_job].status \in {"scraping", "processing"}

\* current_job = ScrapingJob(...); thread.start()
StartJob(scraped_data, target, client) ==
    /\ jobs' = Append(jobs, ScrapingJob(scraped_data))
    /\ current_job' = Len(jobs) + 1
    /\ threads' = Append(threads, Thread(target))
    /\ hist' = Append(hist, NewHist(client))

\* return jsonify({'error': ...}), 400: no job is created, no thread started
Reject ==
    UNCHANGED <<current_job, jobs, threads, hist>>

\* AIClient.test_connection: a hosted provider is only asked whether its API
\* key is set (it is, or the client could not have been constructed); Ollama
\* is asked for its model list.
test_connection(client) == IF client.provider = OLLAMA THEN backendUp ELSE TRUE

\* POST /api/set-ai-provider.  AIClient.__init__ raises when Ollama cannot be
\* reached, before the global is assigned.
SetAiProvider ==
    /\ \E c \in AppClients :
          IF c.provider = OLLAMA /\ ~backendUp
          THEN UNCHANGED current_ai_client
          ELSE current_ai_client' = c
    /\ UNCHANGED <<current_job, jobs, threads, hist, backendUp, master>>
    /\ UNCHANGED <<cacheVars, call>>

\* POST /api/process-bulk-questions
ProcessBulkQuestions ==
    /\ Len(jobs) < MaxJobs
    /\ \E b \in Batches(BulkItems) :
          IF JobRunning THEN Reject
          ELSE IF current_ai_client = None THEN Reject
          ELSE IF b = <<>> THEN Reject
          ELSE StartJob(b, "run_bulk_processing_job", current_ai_client)
    /\ UNCHANGED <<current_ai_client, backendUp, master>>
    /\ UNCHANGED <<cacheVars, call>>

\* POST /api/start-scraping, mode 'selected' or a regular scraping job.  With
\* no client configured the handler constructs AIClient(provider='openai').
StartScraping ==
    /\ Len(jobs) < MaxJobs
    /\ \E mode \in {"selected", "regular"} : \E b \in Batches(SelectedItems) :
          /\ mode = "regular" => b = <<>>
          /\ IF JobRunning
             THEN Reject /\ UNCHANGED current_ai_client
             ELSE /\ current_ai_client' = IF current_ai_client = None
                                          THEN Client(OPENAI, M1) ELSE current_ai_client
                  /\ IF mode = "selected"
                     THEN StartJob(b, "run_processing_job", current_ai_client')
                     ELSE StartJob(<<>>, "run_scraping_job", current_ai_client')
    /\ UNCHANGED <<backendUp, master>>
    /\ UNCHANGED <<cacheVars, call>>

\* Environment: the backend service goes down or comes back.
ToggleBackend ==
    /\ backendUp' = ~backendUp
    /\ hist' = [j \in DOMAIN hist |-> [hist[j] EXCEPT !.upSinceStart = @ \/ backendUp']]
    /\ UNCHANGED <<current_ai_client, current_job, jobs, threads, master>>
    /\ UNCHANGED <<cacheVars, call>>

-----------------------------------------------------------------------------
(* app.py: the worker threads *)

\* dict.update(other), entry by entry
RECURSIVE DictUpdate(_, _)
DictUpdate(dict, other) ==
    IF other = <<>> THEN dict
    ELSE DictUpdate(DictSet(dict, Head(other)), Tail(other))

\* processed_item, the one-key dict {id: body} an enrichment returns
ProcessedItem(record) == [key |-> record.id, record |-> record]

\* job.progress = ((i + 1) / job.total_questions) * 100, i counted from 1 here
Progress(job, i) == [num |-> i * 100, den |-> job.total_questions]

\* Mutant of ConnectionFailed: the message is recorded, the status is not set.
ConnectionFailedSilently(job) ==
    [job EXCEPT !.errors = Append(@, "AI connection failed")]

\* if not current_ai_client.test_connection(): status 'error', one message
ConnectionFailed(job) ==
    [job EXCEPT !.status = "error", !.errors = Append(@, "AI connection failed")]

\* if processed_item: update, count, progress
ItemSucceeded(job, i, record) ==
    [job EXCEPT !.processed_data = DictUpdate(@, <<ProcessedItem(record)>>),
                !.processed_questions = @ + 1,
                !.progress = Progress(job, i)]

\* Mutant of ItemFailed: the failed item is counted as processed too.
ItemFailedCounted(job, i) ==
    [job EXCEPT !.errors = Append(@, "Failed to process"),
                !.processed_questions = @ + 1,
                !.progress = Progress(job, i)]

\* else: "Failed to process: ...", progress
ItemFailed(job, i) ==
    [job EXCEPT !.errors = Append(@, "Failed to process"),
                !.progress = Progress(job, i)]

\* The inner except: "Error processing question ..."; job.progress is not reached.
ItemRaised(job) ==
    [job EXCEPT !.errors = Append(@, "Error processing question")]

\* Mutant of AfterItemError: the exception leaves the loop for the outer except.
AfterItemErrorAborts(thread) == [thread EXCEPT !.pc = "except"]

\* The inner except ends the iteration; enumerate moves to the next item.
AfterItemError(thread) == [thread EXCEPT !.i = @ + 1]

\* enumerate moves to the next item after an item went through.
AfterItem(thread) == [thread EXCEPT !.pc = "loop", !.i = @ + 1, !.client = None]

\* The first statement of a thread: run_bulk_processing_job and
\* run_scraping_job announce the connection test, run_processing_job goes
\* straight to 'processing'.
WorkerBegin(j) ==
    /\ threads[j].pc = "start"
    /\ IF threads[j].target = "run_processing_job"
       THEN /\ jobs' = [jobs EXCEPT ![j].status = "processing"]
            /\ threads' = [threads EXCEPT ![j].pc = "loop"]
       ELSE /\ jobs' = [jobs EXCEPT ![j].status = "checking_ai"]
            /\ threads' = [threads EXCEPT ![j].pc = "check"]
    /\ UNCHANGED <<current_ai_client, current_job, hist, backendUp, master>>
    /\ UNCHANGED <<cacheVars, call>>

\* if not current_ai_client.test_connection(): ... return
WorkerCheck(j) ==
    /\ threads[j].pc = "check"
    /\ IF ~test_connection(current_ai_client)
       THEN /\ jobs' = [jobs EXCEPT ![j] = ConnectionFailed(@)]
            /\ threads' = [threads EXCEPT ![j].pc = "done"]
       ELSE IF threads[j].target = "run_bulk_processing_job"
       THEN /\ jobs' = [jobs EXCEPT ![j].status = "processing"]
            /\ threads' = [threads EXCEPT ![j].pc = "loop"]
       ELSE /\ jobs' = [jobs EXCEPT ![j].status = "scraping"]
            /\ threads' = [threads EXCEPT ![j].pc = "scrape"]
    /\ UNCHANGED <<current_ai_client, current_job, hist, backendUp, master>>
    /\ UNCHANGED <<cacheVars, call>>

\* run_scraping_job: the scrapers return what they found (they catch their
\* own errors); nothing found is an error, otherwise run_processing_job is
\* called and sets 'processing'.
WorkerScrape(j) ==
    /\ threads[j].pc = "scrape"
    /\ \E b \in Batches(ScrapedItems) :
          IF b = <<>>
          THEN /\ jobs' = [jobs EXCEPT ![j].status = "error",
                                       ![j].errors = Append(@, "No questions scraped")]
               /\ threads' = [threads EXCEPT ![j].pc = "done"]
          ELSE /\ jobs' = [jobs EXCEPT ![j].scraped_data = @ \o b,
                                       ![j].total_questions = Len(b),
                                       ![j].status = "processing"]
               /\ threads' = [threads EXCEPT ![j].pc = "loop"]
    /\ UNCHANGED <<current_ai_client, current_job, hist, backendUp, master>>
    /\ UNCHANGED <<cacheVars, call>>

\* One call of format_question_to_json / format_qa_to_json in a batch: the
\* client it was called on, and the provider the 'processing_step' event
\* after it names ('ai_provider': current_ai_client.provider).
Enriched(client, reporting) == [client |-> client, ai_provider |-> reporting.provider]

\* Mutant of CacheHit: the result of the lookup is ignored.
CacheHitIgnored(cached_result) == FALSE

\* if cached_result: return cached_result
CacheHit(cached_result) == cached_result # None

\* One iteration of the loop up to the backend call.  run_processing_job
\* takes len(qa_item['answer']) first, which raises on a missing answer.
\* format_question_to_json / format_qa_to_json of the client that is current
\* now look the question up in the cache; a hit is the item's record, a miss
\* sends the request to the backend.
WorkerItem(j) ==
    /\ threads[j].pc = "loop"
    /\ threads[j].i <= Len(jobs[j].scraped_data)
    /\ LET i      == threads[j].i
           item   == jobs[j].scraped_data[i]
           client == current_ai_client
       IN  IF threads[j].target # "run_bulk_processing_job" /\ ~item.has_answer
           THEN /\ jobs' = [jobs EXCEPT ![j] = ItemRaised(@)]
                /\ threads' = [threads EXCEPT ![j] = AfterItemError(@)]
                /\ hist' = [hist EXCEPT ![j].attempts = Append(@, i), ![j].failed = @ + 1]
           ELSE /\ \E cached \in {get_cached_response(caches, item.question,
                                                       client.provider, client.model)} :
                      IF CacheHit(cached)
                      THEN /\ jobs' = [jobs EXCEPT ![j] = ItemSucceeded(@, i, cached)]
                           /\ threads' = [threads EXCEPT ![j] = AfterItem(@)]
                           /\ hist' = [hist EXCEPT ![j].attempts = Append(@, i),
                                                   ![j].enriched = Append(@, Enriched(client, client))]
                      ELSE /\ threads' = [threads EXCEPT ![j].pc = "call", ![j].client = client]
                           /\ hist' = [hist EXCEPT ![j].attempts = Append(@, i)]
                           /\ UNCHANGED jobs
    /\ UNCHANGED <<current_ai_client, current_job, backendUp, master>>
    /\ UNCHANGED <<cacheVars, call>>

\* The backend request returns.  A hosted backend answers only if it can be
\* reached; OllamaClient fills every field it could not obtain with a default
\* text, so it may return a record either way.  Every failure inside
\* format_*_to_json is caught there and comes back as None.  A record is
\* stored in the cache before it is returned.
WorkerReturn(j) ==
    LET i      == threads[j].i
        item   == jobs[j].scraped_data[i]
        client == threads[j].client
        record == Record(item.question, Len(storeLog) + 1)
    IN  /\ threads[j].pc = "call"
        /\ \E ok \in BOOLEAN :
              /\ ok => (client.provider = OLLAMA \/ backendUp)
              /\ IF ok
                 THEN /\ Store(item.question, client.provider, client.model, record, TRUE)
                      /\ jobs' = [jobs EXCEPT ![j] = ItemSucceeded(@, i, record)]
                      /\ hist' = [hist EXCEPT ![j].enriched = Append(@, Enriched(client, current_ai_client))]
                 ELSE /\ jobs' = [jobs EXCEPT ![j] = ItemFailed(@, i)]
                      /\ hist' = [hist EXCEPT ![j].failed = @ + 1,
                                              ![j].enriched = Append(@, Enriched(client, current_ai_client))]
                      /\ UNCHANGED cacheVars
        /\ threads' = [threads EXCEPT ![j] = AfterItem(@)]
        /\ UNCHANGED <<current_ai_client, current_job, backendUp, master, call>>

\* After the last item: job.status = 'completed'; the master file is written
\* only if job.processed_data is not empty.
WorkerComplete(j) ==
    /\ threads[j].pc = "loop"
    /\ threads[j].i > Len(jobs[j].scraped_data)
    /\ jobs' = [jobs EXCEPT ![j].status = "completed"]
    /\ threads' = [threads EXCEPT ![j].pc = IF jobs[j].processed_data # EmptyDict
                                            THEN "save" ELSE "done"]
    /\ UNCHANGED <<current_ai_client, current_job, hist, backendUp, master>>
    /\ UNCHANGED <<cacheVars, call>>

\* Merge into data/qa_master_<topic>.json (one topic) and write a backup.  The
\* existing file is loaded first; if it cannot be opened or parsed the error
\* is logged and existing_data is {}.  A failed write raises to the outer
\* except, before the master file is written or after it.
WorkerSave(j) ==
    /\ threads[j].pc = "save"
    /\ \E written \in {"none", "master", "both"}, loaded \in BOOLEAN :
          LET existing_data == IF loaded THEN master ELSE EmptyDict
          IN  /\ master' = IF written = "none" THEN master
                           ELSE DictUpdate(existing_data, jobs[j].processed_data)
              /\ threads' = [threads EXCEPT ![j].pc = IF written = "both" THEN "done" ELSE "except"]
    /\ UNCHANGED <<current_ai_client, current_job, jobs, hist, backendUp>>
    /\ UNCHANGED <<cacheVars, call>>

\* The outer except of run_bulk_processing_job / run_processing_job.
WorkerExcept(j) ==
    /\ threads[j].pc = "except"
    /\ jobs' = [jobs EXCEPT ![j].status = "error",
                            ![j].errors = Append(@, "Processing failed")]
    /\ threads' = [threads EXCEPT ![j].pc = "done"]
    /\ UNCHANGED <<current_ai_client, current_job, hist, backendUp, master>>
    /\ UNCHANGED <<cacheVars, call>>

Worker(j) ==
    /\ j \in DOMAIN threads
    /\ \/ WorkerBegin(j) \/ WorkerCheck(j) \/ WorkerScrape(j) \/ WorkerItem(j)
       \/ WorkerReturn(j) \/ WorkerComplete(j) \/ WorkerSave(j) \/ WorkerExcept(j)

Begin    == \E j \in DOMAIN threads : WorkerBegin(j)
Check    == \E j \in DOMAIN threads : WorkerCheck(j)
Scrape   == \E j \in DOMAIN threads : WorkerScrape(j)
ItemStep == \E j \in DOMAIN threads : WorkerItem(j)
Return   == \E j \in DOMAIN threads : WorkerReturn(j)
Complete == \E j \in DOMAIN threads : WorkerComplete(j)
Save     == \E j \in DOMAIN threads : WorkerSave(j)
Except   == \E j \in DOMAIN threads : WorkerExcept(j)

Init == InitCache /\ InitApp

Next ==
    \/ SetAiProvider \/ ProcessBulkQuestions \/ StartScraping \/ ToggleBackend
    \/ Begin \/ Check \/ Scrape \/ ItemStep \/ Return \/ Complete \/ Save \/ Except

Spec == Init /\ [][Next]_vars

\* The threads are scheduled fairly and every backend request returns.
SpecLive == Spec /\ \A j \in 1..MaxJobs : WF_vars(Worker(j))

-----------------------------------------------------------------------------
(* Claims about the orchestrator (Spec, SpecLive) *)

Terminal(j) == jobs[j].status \in {"completed", "error"}

IsPrefix(s, t) == Len(s) <= Len(t) /\ SubSeq(t, 1, Len(s)) = s

\* <<1, 2, ..., n>>
UpTo(n) == [k \in 1..n |-> k]

\* C1: at most one batch is active: no batch is started while an earlier one
\* has not reached 'completed' or 'error', so at most one job is non-terminal.
C1_AtMostOneActiveBatch ==
    Cardinality({j \in DOMAIN jobs : ~Terminal(j)}) <= 1

\* C2: under fair scheduling every batch that was started reaches 'completed'
\* or 'error' and stays terminal; from then on the job keeps every record it
\* accumulated and every failure message it listed.
C2_EventuallyTerminal ==
    /\ \A j \in 1..MaxJobs : (Len(jobs) >= j) ~> (Len(jobs) >= j /\ Terminal(j))
    /\ [][\A j \in DOMAIN jobs :
             Terminal(j) => /\ jobs'[j].status \in {"completed", "error"}
                            /\ jobs'[j].processed_data = jobs[j].processed_data
                            /\ IsPrefix(jobs[j].errors, jobs'[j].errors)]_vars

\* C2 witness: a batch whose thread has ended, terminal, holding a record and
\* a failure message.
C2_Witness ==
    \E j \in DOMAIN jobs :
        /\ threads[j].pc = "done"
        /\ Terminal(j)
        /\ jobs[j].processed_data # EmptyDict
        /\ jobs[j].errors # <<>>

\* C3: a batch started while the backend is unreachable, the backend staying
\* unreachable, processes no item: no item is taken up, processed_data stays
\* empty, the status never becomes 'processing' or 'completed', and the thread
\* ends with status 'error' and exactly one message.
C3_NoItemWhenBackendDown ==
    \A j \in DOMAIN jobs :
        ~hist[j].upSinceStart =>
            /\ hist[j].attempts = <<>>
            /\ jobs[j].processed_data = EmptyDict
            /\ jobs[j].status \notin {"processing", "completed"}
            /\ threads[j].pc = "done" => /\ jobs[j].status = "error"
                                         /\ Len(jobs[j].errors) = 1

\* C4: the loop takes up every item exactly once, in input order, whatever
\* fails; the status is 'processing' as long as the loop runs, and the step
\* that leaves the loop has taken up all items and sets 'completed'.
C4_EveryItemAttemptedThenCompleted ==
    /\ [](\A j \in DOMAIN jobs :
             /\ Len(hist[j].attempts) <= Len(jobs[j].scraped_data)
             /\ hist[j].attempts = UpTo(Len(hist[j].attempts))
             /\ threads[j].pc \in {"loop", "call"} => jobs[j].status = "processing")
    /\ [][\A j \in DOMAIN threads :
             (threads[j].pc \in {"loop", "call"} /\ threads'[j].pc \notin {"loop", "call"})
                => /\ jobs'[j].status = "completed"
                   /\ hist'[j].attempts = UpTo(Len(jobs[j].scraped_data))]_vars

\* C4 witness: a bulk batch of two items, completed although both failed.
C4_Witness ==
    \E j \in DOMAIN jobs :
        /\ threads[j].target = "run_bulk_processing_job"
        /\ jobs[j].status = "completed"
        /\ Len(jobs[j].scraped_data) = 2
        /\ hist[j].failed = 2
        /\ hist[j].attempts = <<1, 2>>

\* C5: a completed batch of n items with pairwise distinct questions, k of
\* which failed, holds n-k records, counts n-k processed questions and lists
\* k messages.
C5_RecordPerSucceededItem ==
    \A j \in DOMAIN jobs :
        jobs[j].status = "completed" =>
            LET n == Len(jobs[j].scraped_data)
                k == hist[j].failed
            IN  /\ Len(jobs[j].processed_data) = n - k
                /\ jobs[j].processed_questions = n - k
                /\ Len(jobs[j].errors) = k

\* C6: at most one backend request is in flight in the whole system, and a
\* batch sends the request for an item only after the outcome of every
\* earlier item has been recorded.
C6_OneRequestInFlight ==
    /\ Cardinality({j \in DOMAIN threads : threads[j].pc = "call"}) <= 1
    /\ \A j \in DOMAIN threads :
          threads[j].pc = "call" =>
              jobs[j].processed_questions + hist[j].failed = threads[j].i - 1

\* Thread j is about to run format_question_to_json / format_qa_to_json for
\* its next item, and this step runs it up to its return or its request.
EnrichmentStarts(j) ==
    /\ threads[j].pc = "loop"
    /\ threads[j].i <= Len(jobs[j].scraped_data)
    /\ threads[j].target = "run_bulk_processing_job"
           \/ jobs[j].scraped_data[threads[j].i].has_answer
    /\ threads'[j] # threads[j]

\* What the cache holds for the next item of thread j and the current client.
CachedForNextItem(j) ==
    get_cached_response(caches, jobs[j].scraped_data[threads[j].i].question,
                        current_ai_client.provider, current_ai_client.model)

EnrichmentReturns(j) == threads[j].pc = "call" /\ threads'[j].pc # "call"

\* The call returned a record: the item was counted as processed.
ReturnedRecord(j) == jobs'[j].processed_questions = jobs[j].processed_questions + 1

\* The entries of cache under keys other than key, with their positions.
OtherEntries(cache, key) == {<<k, cache[k]>> : k \in {n \in 1..Len(cache) : cache[n].key # key}}

\* C14: the caches and their files change only in the return of a successful
\* enrichment call; a call that returns no record leaves both dicts and both
\* files as they were; a call that returns a record leaves the other
\* provider's dict and file alone and, in its own, sets exactly the entry at
\* the key of its (question, backend, model) to the record it returned.
C14_EntryOnlyOnSuccess ==
    [][/\ (caches' # caches \/ files' # files) =>
             \E j \in 1..Len(threads) : EnrichmentReturns(j) /\ ReturnedRecord(j)
       /\ \A j \in 1..Len(threads) :
             EnrichmentReturns(j) =>
                 LET item   == jobs[j].scraped_data[threads[j].i]
                     client == threads[j].client
                     f      == CacheOf(client.provider)
                     key    == _generate_cache_key(item.question, client.provider, client.model)
                     at     == KeyIndex(caches'[f], key)
                 IN  IF ~ReturnedRecord(j)
                     THEN UNCHANGED <<caches, files>>
                     ELSE /\ \A g \in CacheFiles \ {f} :
                                caches'[g] = caches[g] /\ files'[g] = files[g]
                          /\ at # 0
                          /\ jobs'[j] = ItemSucceeded(jobs[j], threads[j].i, caches'[f][at].response)
                          /\ caches'[f][at].original_question = item.question
                          /\ OtherEntries(caches'[f], key) = OtherEntries(caches[f], key)
                          /\ Len(caches'[f]) = Len(caches[f]) + (IF KeyIndex(caches[f], key) = 0 THEN 1 ELSE 0)
                          /\ \/ files'[f] = [kind |-> "json", entries |-> caches'[f]]
                             \/ files'[f] = files[f]]_vars

\* C14 witness: a batch with one item failed and one item enriched by the
\* backend, and a cache that holds exactly the one record.
C14_Witness ==
    \E j \in 1..Len(jobs) :
        /\ jobs[j].processed_questions = 1
        /\ Len(jobs[j].errors) = 1
        /\ hist[j].failed = 1
        /\ Len(storeLog) = 1
        /\ \E f \in CacheFiles :
              /\ Len(caches[f]) = 1
              /\ caches[f][1].response = storeLog[1].response
              /\ files[f] = [kind |-> "json", entries |-> caches[f]]

-----------------------------------------------------------------------------
(* OllamaClient: the retry loop of one sub-call (ollama_client.py) *)

\* The two request functions of OllamaClient
REQUEST_WITH_RETRY == "_ollama_request_with_retry"
SIMPLE_CALL == "_simple_ollama_call"

\* OLLAMA_MAX_RETRIES: the values explored are 0..MaxRetriesBound (default 3)
MaxRetriesBound == 4

\* OLLAMA_RETRY_DELAY, in tenths of a second: the default 2.0 and another
DefaultRetryDelay == 20
RetryDelays == {DefaultRetryDelay, 5}

\* resp.status_code: the one the code accepts, another success, an error
Statuses == {200, 204, 500}

\* The body of a 200 response as _simple_ollama_call reads it: its response
\* text holds JSON, holds none, or resp.json() raises on it.
Bodies(fn) == IF fn = SIMPLE_CALL THEN {"json", "no_json", "bad_body"} ELSE {"json"}

\* What requests.post(...) does: raises Timeout, raises another exception
\* (connection refused), or returns a response.
PostOutcomes(fn) ==
    {[kind |-> "timeout"], [kind |-> "connection_error"]}
        \cup {[kind |-> "response", status |-> c, body |-> "json"] : c \in Statuses \ {200}}
        \cup {[kind |-> "response", status |-> 200, body |-> b] : b \in Bodies(fn)}

\* 2 ** attempt
RECURSIVE Pow2(_)
Pow2(n) == IF n = 0 THEN 1 ELSE 2 * Pow2(n - 1)

\* Mutant of Backoff: the delay grows linearly.
BackoffLinear(retry_delay, attempt) == retry_delay * (attempt + 1)

\* self.retry_delay * (2 ** attempt)
Backoff(retry_delay, attempt) == retry_delay * Pow2(attempt)

Pending == [kind |-> "pending"]

\* A sub-call about to enter its loop.
RetryCall(fn, max_retries, retry_delay) ==
    [fn |-> fn, max_retries |-> max_retries, retry_delay |-> retry_delay,
     attempt |-> 0, pc |-> "post", trace |-> <<>>, result |-> Pending]

RetryCalls ==
    {RetryCall(fn, m, d) : fn \in {REQUEST_WITH_RETRY, SIMPLE_CALL},
                           m \in 0..MaxRetriesBound, d \in RetryDelays}

RequestEvent(attempt, outcome) == [ev |-> "request", attempt |-> attempt, outcome |-> outcome]
SleepEvent(attempt, delay) == [ev |-> "sleep", attempt |-> attempt, delay |-> delay]

\* return <value>
Returned(c, value) == [c EXCEPT !.pc = "returned", !.result = value]

\* if attempt < self.max_retries - 1: time.sleep(...); continue -- otherwise
\* what the branch does on the last attempt.
SleepOrElse(c, last) ==
    IF c.attempt < c.max_retries - 1 THEN [c EXCEPT !.pc = "sleep"] ELSE last

\* One pass of the loop of _ollama_request_with_retry after the request: a
\* 200 is returned; anything else sleeps and continues, or on the last
\* attempt falls out of the loop to "return None".
RequestWithRetryHandles(c, outcome) ==
    IF outcome.kind = "response" /\ outcome.status = 200
    THEN Returned(c, outcome)
    ELSE SleepOrElse(c, Returned(c, [kind |-> "none"]))

\* One pass of the loop of _simple_ollama_call after the request.
SimpleCallHandles(c, outcome) ==
    IF outcome.kind = "timeout"
    THEN SleepOrElse(c, Returned(c, [kind |-> "failure", error |-> "Request timed out"]))
    ELSE IF outcome.kind = "connection_error"
    THEN SleepOrElse(c, Returned(c, [kind |-> "failure", error |-> "str(e)"]))
    ELSE IF outcome.status # 200
    THEN SleepOrElse(c, Returned(c, [kind |-> "failure", error |-> "HTTP", status |-> outcome.status]))
    ELSE IF outcome.body = "bad_body"
    THEN SleepOrElse(c, Returned(c, [kind |-> "failure", error |-> "str(e)"]))
    ELSE IF outcome.body = "no_json"
    THEN Returned(c, [kind |-> "failure", error |-> "Could not parse JSON"])
    ELSE Returned(c, [kind |-> "success", data |-> outcome])

\* for attempt in range(self.max_retries): requests.post(...) and what the
\* loop body does with its outcome, up to the return or the start of the sleep.
RetryPost ==
    /\ call.fn \in {REQUEST_WITH_RETRY, SIMPLE_CALL}
    /\ call.pc = "post"
    /\ call.attempt < call.max_retries
    /\ \E outcome \in PostOutcomes(call.fn) :
          LET sent == [call EXCEPT !.trace = Append(@, RequestEvent(call.attempt, outcome))]
          IN  call' = IF call.fn = REQUEST_WITH_RETRY
                      THEN RequestWithRetryHandles(sent, outcome)
                      ELSE SimpleCallHandles(sent, outcome)
    /\ UNCHANGED <<cacheVars, appVars>>

\* time.sleep(self.retry_delay * (2 ** attempt)) ends; continue.
RetrySleep ==
    /\ call.fn \in {REQUEST_WITH_RETRY, SIMPLE_CALL}
    /\ call.pc = "sleep"
    /\ call' = [call EXCEPT !.pc = "post", !.attempt = @ + 1,
                            !.trace = Append(@, SleepEvent(call.attempt,
                                                           Backoff(call.retry_delay, call.attempt)))]
    /\ UNCHANGED <<cacheVars, appVars>>

\* range(self.max_retries) is empty: the statement after the loop.
RetryLoopEmpty ==
    /\ call.fn \in {REQUEST_WITH_RETRY, SIMPLE_CALL}
    /\ call.pc = "post"
    /\ call.attempt >= call.max_retries
    /\ call' = Returned(call, IF call.fn = REQUEST_WITH_RETRY
                              THEN [kind |-> "none"]
                              ELSE [kind |-> "failure", error |-> "Max retries exceeded"])
    /\ UNCHANGED <<cacheVars, appVars>>

InitRetry == InitCache /\ InitOrchestrator /\ call \in RetryCalls

NextRetry == RetryPost \/ RetrySleep \/ RetryLoopEmpty

SpecRetry == InitRetry /\ [][NextRetry]_vars

-----------------------------------------------------------------------------
(* Claims about the retry loop (SpecRetry) *)

Requests == SelectSeq(call.trace, LAMBDA e : e.ev = "request")

\* A request that failed by connection failure, timeout or non-2xx status.
FailedAttempt(outcome) ==
    \/ outcome.kind \in {"timeout", "connection_error"}
    \/ outcome.kind = "response" /\ ~(outcome.status \in 200..299)

ReportsFailure == call.pc = "returned" /\ call.result.kind \in {"none", "failure"}

\* C15: a sub-call sends at most max_retries requests, each further one only
\* after a request that failed by connection failure, timeout or non-2xx
\* status; a request that did not fail so ends the call, which returns it;
\* the call reports failure only after max_retries failed requests.
C15_BoundedRetry ==
    /\ Len(Requests) <= call.max_retries
    /\ \A k \in 1..Len(Requests) :
          IF FailedAttempt(Requests[k].outcome)
          THEN k < Len(Requests) \/ call.pc = "sleep" \/ ReportsFailure
          ELSE /\ k = Len(Requests)
               /\ call.pc = "returned"
               /\ call.result.kind \in {"response", "success"}
    /\ ReportsFailure =>
          /\ Len(Requests) = call.max_retries
          /\ \A k \in 1..Len(Requests) : FailedAttempt(Requests[k].outcome)

Sleeps == SelectSeq(call.trace, LAMBDA e : e.ev = "sleep")

\* C16: the wait after failed attempt i is retry_delay * 2^i, whatever the
\* failure (timeout, connection error, bad status); every attempt after the
\* first comes right after that wait; nothing waits before the first attempt
\* or after the last one.
C16_ExponentialBackoff ==
    /\ \A k \in 1..Len(call.trace) :
          LET e == call.trace[k]
          IN  IF e.ev = "sleep"
              THEN /\ k > 1
                   /\ call.trace[k - 1] \in {RequestEvent(e.attempt, o) : o \in PostOutcomes(call.fn)}
                   /\ e.delay = call.retry_delay * 2^(e.attempt)
                   /\ e.attempt < call.max_retries - 1
              ELSE IF e.attempt = 0
              THEN k = 1
              ELSE /\ k > 1
                   /\ call.trace[k - 1].ev = "sleep"
                   /\ call.trace[k - 1].attempt = e.attempt - 1
    /\ call.pc = "returned" /\ call.trace # <<>>
          => call.trace[Len(call.trace)].ev = "request"

\* C16 witness: a call with the default delay and four attempts that waited
\* 2, 4 and 8 seconds after a timeout, a connection error and a bad status.
C16_Witness ==
    /\ call.pc = "returned"
    /\ call.retry_delay = DefaultRetryDelay
    /\ Len(Requests) = 4
    /\ {Requests[k].outcome.kind : k \in 1..3} = {"timeout", "connection_error", "response"}
    /\ Len(Sleeps) = 3
    /\ \A k \in 1..3 : Sleeps[k].delay = DefaultRetryDelay * 2^(k - 1)

-----------------------------------------------------------------------------
(* json.loads, over the characters the explored texts use *)

\* json.JSONDecodeError
DecodeError == [ok |-> FALSE, next |-> 0, canon |-> <<>>]

\* A value read up to position next - 1; canon is its text without the
\* whitespace between tokens, which stands for the Python value.
Parsed(next, canon) == [ok |-> TRUE, next |-> next, canon |-> canon]

\* The control characters among the characters used
ControlChars == {"\t", "\n", "\r"}

Digits == {"1"}

\* The first position from i on that holds no whitespace
RECURSIVE SkipWhitespace(_, _)
SkipWhitespace(s, i) ==
    IF i <= Len(s) /\ s[i] \in Whitespace THEN SkipWhitespace(s, i + 1) ELSE i

\* The first position from i on that holds ch; 0 where Python has -1
RECURSIVE FindFrom(_, _, _)
FindFrom(s, ch, i) ==
    IF i > Len(s) THEN 0 ELSE IF s[i] = ch THEN i ELSE FindFrom(s, ch, i + 1)

\* str.find(sub, i) for a substring; 0 where Python has -1
RECURSIVE FindSub(_, _, _)
FindSub(s, sub, i) ==
    IF i + Len(sub) - 1 > Len(s) THEN 0
    ELSE IF SubSeq(s, i, i + Len(sub) - 1) = sub THEN i
    ELSE FindSub(s, sub, i + 1)

\* str.rfind(ch); 0 where Python has -1
RECURSIVE RFindFrom(_, _, _)
RFindFrom(s, ch, i) ==
    IF i = 0 THEN 0 ELSE IF s[i] = ch THEN i ELSE RFindFrom(s, ch, i - 1)

\* str.endswith(suffix)
StrEndsWith(s, suffix) ==
    Len(suffix) <= Len(s) /\ SubSeq(s, Len(s) - Len(suffix) + 1, Len(s)) = suffix

\* A string literal from its opening quote at i: no control character inside
ParseString(s, i) ==
    LET j == FindFrom(s, "\"", i + 1)
    IN  IF j = 0 \/ \E k \in (i + 1)..(j - 1) : s[k] \in ControlChars
        THEN DecodeError
        ELSE Parsed(j + 1, SubSeq(s, i, j))

RECURSIVE NumberEnd(_, _)
NumberEnd(s, i) == IF i <= Len(s) /\ s[i] \in Digits THEN NumberEnd(s, i + 1) ELSE i

ParseNumber(s, i) == Parsed(NumberEnd(s, i), SubSeq(s, i, NumberEnd(s, i) - 1))

RECURSIVE ParseValue(_, _)
RECURSIVE ParseMembers(_, _, _)
RECURSIVE ParseElements(_, _, _)

\* The value that starts at position i
ParseValue(s, i) ==
    IF i > Len(s) THEN DecodeError
    ELSE IF s[i] = "{"
    THEN LET j == SkipWhitespace(s, i + 1)
         IN  IF j <= Len(s) /\ s[j] = "}" THEN Parsed(j + 1, <<"{", "}">>)
             ELSE ParseMembers(s, j, <<"{">>)
    ELSE IF s[i] = "["
    THEN LET j == SkipWhitespace(s, i + 1)
         IN  IF j <= Len(s) /\ s[j] = "]" THEN Parsed(j + 1, <<"[", "]">>)
             ELSE ParseElements(s, j, <<"[">>)
    ELSE IF s[i] = "\"" THEN ParseString(s, i)
    ELSE IF s[i] \in Digits THEN ParseNumber(s, i)
    ELSE DecodeError

\* The members of an object from the key at position i on, up to its "}"
ParseMembers(s, i, acc) ==
    IF i > Len(s) \/ s[i] # "\"" THEN DecodeError
    ELSE LET key == ParseString(s, i)
         IN  IF ~key.ok THEN DecodeError
             ELSE LET colon == SkipWhitespace(s, key.next)
                  IN  IF colon > Len(s) \/ s[colon] # ":" THEN DecodeError
                      ELSE LET value == ParseValue(s, SkipWhitespace(s, colon + 1))
                           IN  IF ~value.ok THEN DecodeError
                               ELSE LET after  == SkipWhitespace(s, value.next)
                                        member == acc \o key.canon \o <<":">> \o value.canon
                                    IN  IF after > Len(s) THEN DecodeError
                                        ELSE IF s[after] = ","
                                        THEN ParseMembers(s, SkipWhitespace(s, after + 1),
                                                          Append(member, ","))
                                        ELSE IF s[after] = "}"
                                        THEN Parsed(after + 1, Append(member, "}"))
                                        ELSE DecodeError

\* The elements of an array from the value at position i on, up to its "]"
ParseElements(s, i, acc) ==
    LET value == ParseValue(s, i)
    IN  IF ~value.ok THEN DecodeError
        ELSE LET after   == SkipWhitespace(s, value.next)
                 element == acc \o value.canon
             IN  IF after > Len(s) THEN DecodeError
                 ELSE IF s[after] = ","
                 THEN ParseElements(s, SkipWhitespace(s, after + 1), Append(element, ","))
                 ELSE IF s[after] = "]"
                 THEN Parsed(after + 1, Append(element, "]"))
                 ELSE DecodeError

\* json.loads(s): one value, whitespace around it, nothing else
json_loads(s) ==
    LET value == ParseValue(s, SkipWhitespace(s, 1))
    IN  IF value.ok /\ SkipWhitespace(s, value.next) > Len(s)
        THEN [ok |-> TRUE, value |-> value.canon]
        ELSE [ok |-> FALSE, value |-> <<>>]

\* What an extractor returns for a parsed value
Json(value) == [value |-> value]

-----------------------------------------------------------------------------
(* The two JSON extractors (ollama_client.py, ai_client.py) *)
\* The backquote character, which a TLA+ string cannot hold, is written "~".
Backquote == "~"

\* The markdown fences
Fence == <<Backquote, Backquote, Backquote>>
FenceJson == Fence \o <<"j", "s", "o", "n">>

\* match.group(1).strip() of the re.search for a fenced block: what stands
\* between the first opening fence and the next fence, stripped; the text
\* itself if there is no match.
FencedGroup(text, opening) ==
    LET after   == FindSub(text, opening, 1) + Len(opening)
        closing == FindSub(text, Fence, after)
    IN  IF closing = 0 THEN text ELSE StrStrip(SubSeq(text, after, closing - 1))

\* OllamaClient._find_matching; 0 where Python has -1
RECURSIVE FindMatchingFrom(_, _, _, _, _)
FindMatchingFrom(s, i, depth, open_ch, close_ch) ==
    IF i > Len(s) THEN 0
    ELSE IF s[i] = open_ch THEN FindMatchingFrom(s, i + 1, depth + 1, open_ch, close_ch)
    ELSE IF s[i] = close_ch
    THEN (IF depth - 1 = 0 THEN i ELSE FindMatchingFrom(s, i + 1, depth - 1, open_ch, close_ch))
    ELSE FindMatchingFrom(s, i + 1, depth, open_ch, close_ch)

_find_matching(s, start, open_ch, close_ch) == FindMatchingFrom(s, start, 0, open_ch, close_ch)

\* re.sub of the control characters by nothing
RemoveControlChars(s) == SelectSeq(s, LAMBDA ch : ch \notin ControlChars)

\* re.sub of a comma before a closer: a comma goes if only whitespace
\* separates it from the next "}" or "]".
RECURSIVE RemoveTrailingCommasFrom(_, _)
RemoveTrailingCommasFrom(s, i) ==
    IF i > Len(s) THEN <<>>
    ELSE LET j == SkipWhitespace(s, i + 1)
         IN  IF s[i] = "," /\ j <= Len(s) /\ s[j] \in {"}", "]"}
             THEN RemoveTrailingCommasFrom(s, i + 1)
             ELSE <<s[i]>> \o RemoveTrailingCommasFrom(s, i + 1)

RemoveTrailingCommas(s) == RemoveTrailingCommasFrom(s, 1)

\* _extract_json from "Find JSON in text" on
ExtractSnippet(text) ==
    LET start_obj == FindFrom(text, "{", 1)
        start_arr == FindFrom(text, "[", 1)
    IN  IF start_obj = 0 /\ start_arr = 0 THEN None
        ELSE LET start   == IF start_obj = 0 THEN start_arr
                            ELSE IF start_arr = 0 THEN start_obj
                            ELSE IF start_obj < start_arr THEN start_obj ELSE start_arr
                 opener  == text[start]
                 closer  == IF opener = "{" THEN "}" ELSE "]"
                 end     == _find_matching(text, start, opener, closer)
                 snippet == IF end = 0 THEN SubSeq(text, start, Len(text))
                            ELSE SubSeq(text, start, end)
                 cleaned == RemoveTrailingCommas(RemoveControlChars(snippet))
             IN  IF json_loads(snippet).ok THEN Json(json_loads(snippet).value)
                 ELSE IF json_loads(cleaned).ok THEN Json(json_loads(cleaned).value)
                 ELSE None

\* OllamaClient._extract_json(text)
_extract_json(raw) ==
    LET stripped == StrStrip(raw)
        text     == IF FindSub(stripped, FenceJson, 1) # 0 THEN FencedGroup(stripped, FenceJson)
                    ELSE IF FindSub(stripped, Fence, 1) # 0 THEN FencedGroup(stripped, Fence)
                    ELSE stripped
    IN  IF (StrStartsWith(text, <<"{">>) \/ StrStartsWith(text, <<"[">>)) /\ json_loads(text).ok
        THEN Json(json_loads(text).value)
        ELSE ExtractSnippet(text)

\* AIClient._parse_json_response(content)
_parse_json_response(raw) ==
    LET stripped == StrStrip(raw)
        nojson   == IF StrStartsWith(stripped, FenceJson)
                    THEN SubSeq(stripped, Len(FenceJson) + 1, Len(stripped)) ELSE stripped
        nofence  == IF StrStartsWith(nojson, Fence)
                    THEN SubSeq(nojson, Len(Fence) + 1, Len(nojson)) ELSE nojson
        content  == IF StrEndsWith(nofence, Fence)
                    THEN SubSeq(nofence, 1, Len(nofence) - Len(Fence)) ELSE nofence
        start    == FindFrom(content, "{", 1)
        last     == RFindFrom(content, "}", Len(content))
    IN  IF start # 0 /\ last >= start /\ json_loads(SubSeq(content, start, last)).ok
        THEN Json(json_loads(SubSeq(content, start, last)).value)
        ELSE None

-----------------------------------------------------------------------------
(* Raw backend texts: a body between a prefix and a suffix *)

ObjFlat == <<"{", "\"", "a", "\"", ":", "1", "}">>
ObjNested == <<"{", "\"", "a", "\"", ":", "{", "\"", "a", "\"", ":", "1", "}", "}">>
ObjTrailingComma == <<"{", "\"", "a", "\"", ":", "1", ",", "}">>
ObjBraceInString == <<"{", "\"", "a", "\"", ":", "\"", "}", "\"", "}">>
ObjEmpty == <<"{", "}">>
ObjUnclosed == <<"{", "\"", "a", "\"", ":", "1">>
ArrOfObj == <<"[", "{", "\"", "a", "\"", ":", "1", "}", "]">>
Prose == <<"x">>

ValidObjects == {ObjFlat, ObjNested, ObjBraceInString, ObjEmpty}

NoText == <<>>
ProsePrefix == <<"x", " ">>
ProseSuffix == <<" ", "x">>
FenceJsonPrefix == FenceJson \o <<"\n">>
FencePrefix == Fence \o <<"\n">>
FenceSuffix == <<"\n">> \o Fence

TextPrefixes == {NoText, ProsePrefix, FenceJsonPrefix, FencePrefix}
TextBodies == ValidObjects \cup {ObjTrailingComma, ObjUnclosed, ArrOfObj, Prose, NoText}
TextSuffixes == {NoText, ProseSuffix, FenceSuffix}

\* One raw text handed to both extractors
ExtractCall(prefix, body, suffix) ==
    [fn |-> "extract", prefix |-> prefix, body |-> body, suffix |-> suffix,
     text |-> prefix \o body \o suffix,
     localDone |-> FALSE, local |-> None, hostedDone |-> FALSE, hosted |-> None]

ExtractCalls ==
    {ExtractCall(p, b, s) : p \in TextPrefixes, b \in TextBodies, s \in TextSuffixes}

\* The local path: parsed = self._extract_json(text)
ExtractLocal ==
    /\ call.fn = "extract"
    /\ ~call.localDone
    /\ call' = [call EXCEPT !.localDone = TRUE, !.local = _extract_json(call.text)]
    /\ UNCHANGED <<cacheVars, appVars>>

\* The hosted path: return self._parse_json_response(content)
ExtractHosted ==
    /\ call.fn = "extract"
    /\ ~call.hostedDone
    /\ call' = [call EXCEPT !.hostedDone = TRUE, !.hosted = _parse_json_response(call.text)]
    /\ UNCHANGED <<cacheVars, appVars>>

InitExtract == InitCache /\ InitOrchestrator /\ call \in ExtractCalls

NextExtract == ExtractLocal \/ ExtractHosted

SpecExtract == InitExtract /\ [][NextExtract]_vars

-----------------------------------------------------------------------------
(* Claims about JSON extraction (SpecExtract) *)

\* The value json.loads gives for a valid JSON text
ValueOf(text) == Json(json_loads(text).value)

HasBraceOrBracket(text) == \E i \in 1..Len(text) : text[i] \in {"{", "}", "[", "]"}

\* C19: the local extractor returns the parsed object for a valid object in
\* json fences, for a valid bare object with or without prose before or
\* after it, and for an object with a trailing comma before its closing
\* brace; for a text without any brace or bracket it returns None.
C19_ExtractorFindsObject ==
    (call.fn = "extract" /\ call.localDone) =>
        /\ (call.body \in ValidObjects /\ call.prefix = FenceJsonPrefix /\ call.suffix = FenceSuffix)
              => call.local = ValueOf(call.body)
        /\ (call.body \in ValidObjects /\ call.prefix \in {NoText, ProsePrefix}
                                      /\ call.suffix \in {NoText, ProseSuffix})
              => call.local = ValueOf(call.body)
        /\ (call.body = ObjTrailingComma /\ call.prefix = NoText /\ call.suffix = NoText)
              => call.local = ValueOf(ObjFlat)
        /\ ~HasBraceOrBracket(call.text) => call.local = None

\* C20: for every raw text the hosted and the local extraction return the
\* same JSON value, or both return None.
C20_ExtractorsAgree ==
    (call.fn = "extract" /\ call.localDone /\ call.hostedDone) => call.local = call.hosted

-----------------------------------------------------------------------------
(* AIClient: one enrichment call on a hosted backend (ai_client.py) *)

HostedProviders == {OPENAI, CLAUDE}
HostedQuestions == {QA, QB}

\* response.status_code: the one the code accepts and two errors
HostedStatuses == {200, 429, 500}

\* The message content of a 200 response
HostedContents ==
    {ObjFlat, FenceJsonPrefix \o ObjNested \o FenceSuffix, ObjTrailingComma, ObjEmpty, Prose, NoText}

\* What requests.post(..., timeout=60) does: raises Timeout, raises
\* ConnectionError, or returns a response; a 200 response has the shape of a
\* chat completion with its content, or another shape.
HostedOutcomes ==
    {[kind |-> "timeout"], [kind |-> "connection_refused"]}
        \cup {[kind |-> "response", status |-> c, shape |-> "error", content |-> NoText] :
                 c \in HostedStatuses \ {200}}
        \cup {[kind |-> "response", status |-> 200, shape |-> "chat", content |-> t] :
                 t \in HostedContents}
        \cup {[kind |-> "response", status |-> 200, shape |-> "other", content |-> NoText]}

\* _call_openai / _call_claude from the outcome of the request on: an
\* exception is caught and gives None, a status other than 200 gives None,
\* a 200 gives what _parse_json_response finds in the content.
HostedResult(outcome) ==
    IF outcome.kind # "response" THEN None
    ELSE IF outcome.status # 200 THEN None
    ELSE IF outcome.shape # "chat" THEN None
    ELSE _parse_json_response(outcome.content)

\* if result: an empty dict is false
Truthy(result) == IF result = None THEN FALSE ELSE result.value # ObjEmpty

\* One call of format_qa_to_json / format_question_to_json
HostedCall(provider, model, question) ==
    [fn |-> "format_qa_to_json", provider |-> provider, model |-> model,
     question |-> question, pc |-> "lookup", hit |-> FALSE, requests |-> <<>>,
     result |-> Pending]

HostedCalls ==
    {HostedCall(p, M1, q) : p \in HostedProviders, q \in HostedQuestions}

\* The dicts a process may have loaded: nothing, or a record for QA
HostedSeeds ==
    {NoCaches} \cup {store_response(NoCaches, QA, p, M1, Record(QA, 1), 0) : p \in HostedProviders}

\* Mutant of HostedFails: the request is sent again.
HostedFailsAndRetries(c) == [c EXCEPT !.pc = "post"]

\* logger.warning("AI processing failed"); return None
HostedFails(c) == Returned(c, None)

\* Check cache first: if cached_result: return cached_result
HostedLookup ==
    /\ call.fn = "format_qa_to_json"
    /\ call.pc = "lookup"
    /\ LET cached_result == get_cached_response(caches, call.question, call.provider, call.model)
       IN  call' = IF CacheHit(cached_result)
                   THEN Returned([call EXCEPT !.hit = TRUE], cached_result)
                   ELSE [call EXCEPT !.pc = "post"]
    /\ UNCHANGED <<cacheVars, appVars>>

\* result = self._call_openai(...) / self._call_claude(...): the request,
\* and then "if result:" store_response and return it, else return None.
HostedPost ==
    /\ call.fn = "format_qa_to_json"
    /\ call.pc = "post"
    /\ \E outcome \in HostedOutcomes, saveOk \in BOOLEAN :
          LET sent   == [call EXCEPT !.requests = Append(@, outcome)]
              result == HostedResult(outcome)
          IN  IF Truthy(result)
              THEN /\ Store(call.question, call.provider, call.model, result, saveOk)
                   /\ call' = Returned(sent, result)
              ELSE /\ saveOk
                   /\ call' = HostedFails(sent)
                   /\ UNCHANGED cacheVars
    /\ UNCHANGED appVars

InitHosted ==
    /\ \E seed \in HostedSeeds :
          /\ caches = seed
          /\ files = [f \in CacheFiles |->
                         IF seed[f] = <<>> THEN AbsentFile
                         ELSE [kind |-> "json", entries |-> seed[f]]]
    /\ bootFiles = files
    /\ now = 0
    /\ bootTime = 0
    /\ storeLog = <<>>
    /\ lastOp = [op |-> "init"]
    /\ InitOrchestrator
    /\ call \in HostedCalls

NextHosted == HostedLookup \/ HostedPost

SpecHosted == InitHosted /\ [][NextHosted]_vars

-----------------------------------------------------------------------------
(* Claims about a hosted enrichment call (SpecHosted) *)

\* C17: a hosted enrichment call sends no request when its lookup hits and
\* exactly one when it misses: whatever the request does (timeout, refused
\* connection, bad status, unparseable content), the call returns after it.
C17_SingleRequest ==
    /\ Len(call.requests) <= 1
    /\ call.pc \in {"lookup", "post"} => call.requests = <<>>
    /\ call.pc = "returned" => Len(call.requests) = (IF call.hit THEN 0 ELSE 1)

\* C17 witness: a call that missed the cache, whose one request timed out,
\* and that returned None.
C17_Witness ==
    /\ call.pc = "returned"
    /\ ~call.hit
    /\ call.requests = <<[kind |-> "timeout"]>>
    /\ call.result = None

\* The kind of outcome as the claim names it; code is 0 where there is none.
OutcomeKind(outcome) ==
    IF outcome.kind = "timeout" THEN [kind |-> "Timeout", code |-> 0]
    ELSE IF outcome.kind = "connection_refused" THEN [kind |-> "ConnectionRefused", code |-> 0]
    ELSE IF outcome.status # 200 THEN [kind |-> "BadStatus", code |-> outcome.status]
    ELSE IF outcome.shape = "chat" /\ outcome.content \in {NoText, ObjEmpty}
    THEN [kind |-> "SuccessfulButEmpty", code |-> 0]
    ELSE IF HostedResult(outcome) = None THEN [kind |-> "Unparseable", code |-> 0]
    ELSE [kind |-> "Success", code |-> 0]

\* What the caller of the enrichment call gets for an outcome
Reported(outcome) == IF Truthy(HostedResult(outcome)) THEN HostedResult(outcome) ELSE None

\* C18: the result of a hosted call tells its failure kind: no outcome of
\* another kind (another failure, another status code, a successful but
\* empty response) is reported with the same result.
C18_FailureKindSurfaced ==
    (call.pc = "returned" /\ ~call.hit /\ OutcomeKind(call.requests[1]).kind # "Success") =>
        \A other \in HostedOutcomes :
            OutcomeKind(other) # OutcomeKind(call.requests[1]) => Reported(other) # call.result

-----------------------------------------------------------------------------
(* OllamaClient: the units of the multi-step enrichment (ollama_client.py) *)

DecimalDigits == {"0", "1", "2", "3", "4", "5", "6", "7", "8", "9"}
Quotes == {"\"", "'"}
Min(a, b) == IF a < b THEN a ELSE b

\* str.split(sep) for a one-character separator: the pieces between the
\* separators, empty ones included
RECURSIVE SplitOnFrom(_, _, _, _)
SplitOnFrom(s, sep, piece, acc) ==
    IF s = <<>> THEN Append(acc, piece)
    ELSE IF Head(s) = sep THEN SplitOnFrom(Tail(s), sep, <<>>, Append(acc, piece))
    ELSE SplitOnFrom(Tail(s), sep, Append(piece, Head(s)), acc)

SplitOn(s, sep) == SplitOnFrom(s, sep, <<>>, <<>>)

\* sep in s
Contains(s, sub) == FindSub(s, sub, 1) # 0

\* [line.strip() for line in text.split('\n') if line.strip()]
StrippedLines(text) ==
    LET pieces == SplitOn(text, "\n")
    IN  SelectSeq([i \in 1..Len(pieces) |-> StrStrip(pieces[i])], LAMBDA line : line # <<>>)

\* The substitution that removes a leading "1. ": digits, a dot, whitespace
StripNumbering(line) ==
    LET rest == StrLStrip(line, DecimalDigits)
    IN  IF rest # line /\ rest # <<>> /\ Head(rest) = "."
        THEN StrLStrip(Tail(rest), Whitespace)
        ELSE line

\* The substitution that removes a leading "- " or "* "
StripBullet(line, bullet) ==
    IF line # <<>> /\ Head(line) = bullet THEN StrLStrip(Tail(line), Whitespace) ELSE line

\* Mutant of CleanLine: a leading asterisk is kept.
CleanLineKeepsAsterisk(line) ==
    LET unquoted == StripBullet(StripNumbering(line), "-")
    IN  StrRStrip(StrLStrip(unquoted, Quotes), Quotes)

\* The body of "for line in lines" in _ollama_call_for_list up to the test
CleanLine(line) ==
    LET unquoted == StripBullet(StripBullet(StripNumbering(line), "-"), "*")
    IN  StrRStrip(StrLStrip(unquoted, Quotes), Quotes)

\* What self._ollama_request_with_retry(payload, timeout=60) gave the unit:
\* None after its retries, or a 200 response whose body is JSON with the text
\* under "response" (the empty text when the key is missing) or is not JSON.
NoResponse == [kind |-> "none"]
BadBody == [kind |-> "response", body |-> "bad_body"]
Response(text) == [kind |-> "response", body |-> "json", response |-> text]

\* if resp: ... resp.json() does not raise
Answered(resp) == resp.kind = "response" /\ resp.body = "json"

\* prompt.split('"')[1]: the prompts quote the question first, so this is the
\* question up to its own first double quote
BaseQuestion(question) == SplitOn(question, "\"")[1]

DefaultQuestionPrefixes == <<
    <<"C", "a", "n", " ", "y", "o", "u", " ", "e", "x", "p", "l", "a", "i", "n", " ">>,
    <<"W", "h", "a", "t", " ", "d", "o", " ", "y", "o", "u", " ", "m", "e", "a", "n", " ", "b", "y", " ">>,
    <<"T", "e", "l", "l", " ", "m", "e", " ", "a", "b", "o", "u", "t", " ">>,
    <<"H", "o", "w", " ", "w", "o", "u", "l", "d", " ", "y", "o", "u", " ", "d", "e", "s", "c", "r", "i", "b", "e", " ">>,
    <<"W", "h", "a", "t", "'", "s", " ", "t", "h", "e", " ", "a", "n", "s", "w", "e", "r", " ", "t", "o", " ">>,
    <<"C", "o", "u", "l", "d", " ", "y", "o", "u", " ", "c", "l", "a", "r", "i", "f", "y", " ">>,
    <<"P", "l", "e", "a", "s", "e", " ", "e", "l", "a", "b", "o", "r", "a", "t", "e", " ", "o", "n", " ">>,
    <<"W", "h", "a", "t", " ", "a", "r", "e", " ", "t", "h", "e", " ", "d", "e", "t", "a", "i", "l", "s", " ", "o", "f", " ">>,
    <<"C", "a", "n", " ", "y", "o", "u", " ", "p", "r", "o", "v", "i", "d", "e", " ", "i", "n", "f", "o", "r", "m", "a", "t", "i", "o", "n", " ", "a", "b", "o", "u", "t", " ">>,
    <<"W", "h", "a", "t", " ", "s", "h", "o", "u", "l", "d", " ", "I", " ", "k", "n", "o", "w", " ", "a", "b", "o", "u", "t", " ">> >>

_generate_default_questions(base_question, count) ==
    SubSeq([i \in 1..Len(DefaultQuestionPrefixes) |->
               DefaultQuestionPrefixes[i] \o StrLower(base_question)],
           1, Min(count, Len(DefaultQuestionPrefixes)))

\* re.findall(r'\w+', s): the maximal runs of word characters
RECURSIVE WordsFrom(_, _, _)
WordsFrom(s, word, acc) ==
    IF s = <<>> THEN (IF word = <<>> THEN acc ELSE Append(acc, word))
    ELSE IF Head(s) \in LowerAlnum \cup DOMAIN UpperToLower \cup {"_"}
         THEN WordsFrom(Tail(s), Append(word, Head(s)), acc)
         ELSE WordsFrom(Tail(s), <<>>, IF word = <<>> THEN acc ELSE Append(acc, word))

StopWords ==
    {<<"w", "h", "a", "t">>, <<"h", "o", "w">>, <<"w", "h", "e", "n">>, <<"w", "h", "e", "r", "e">>, <<"w", "h", "y">>, <<"w", "h", "i", "c", "h">>, <<"t", "h", "e">>, <<"a", "n", "d">>, <<"o", "r">>}

GenericTags == <<<<"w", "e", "b", "-", "d", "e", "v", "e", "l", "o", "p", "m", "e", "n", "t">>, <<"p", "r", "o", "g", "r", "a", "m", "m", "i", "n", "g">>, <<"t", "e", "c", "h", "n", "i", "c", "a", "l">>, <<"i", "n", "t", "e", "r", "v", "i", "e", "w">>>>

\* The words longer than 3 that are no stop words, then the generic tags;
\* with them there are at least 4 tags, so for count <= 4 the padding loop
\* ("tag-n") does not run.
_generate_default_tags(question, count) ==
    LET words == WordsFrom(StrLower(question), <<>>, <<>>)
        tags  == SelectSeq(words, LAMBDA w : Len(w) > 3 /\ w \notin StopWords) \o GenericTags
    IN  SubSeq(tags, 1, count)

\* Mutant of ListDefaults: as many default questions as items were asked for,
\* as _get_text_list does.
ListDefaultsFull(question, expected_count, field_name) ==
    _generate_default_questions(BaseQuestion(question), expected_count)

\* The statements of _ollama_call_for_list after the try block
ListDefaults(question, expected_count, field_name) ==
    IF Contains(StrLower(field_name), <<"q", "u", "e", "s", "t", "i", "o", "n">>)
    THEN _generate_default_questions(BaseQuestion(question), Min(3, expected_count))
    ELSE IF Contains(StrLower(field_name), <<"t", "a", "g">>)
    THEN _generate_default_tags(BaseQuestion(question), Min(3, expected_count))
    ELSE <<>>

\* The list "cleaned" that _ollama_call_for_list builds from the response
\* text: the stripped non-empty lines without numbering, bullet and quotes,
\* those longer than 3 characters
CleanedLines(text) ==
    LET lines == StrippedLines(text)
    IN  SelectSeq([i \in 1..Len(lines) |-> CleanLine(lines[i])], LAMBDA line : Len(line) > 3)

\* _ollama_call_for_list from the response of its request on
_ollama_call_for_list(resp, question, expected_count, field_name) ==
    LET cleaned == IF Answered(resp) THEN CleanedLines(resp.response) ELSE <<>>
    IN  IF Len(cleaned) > 0
        THEN (IF Len(cleaned) >= expected_count THEN SubSeq(cleaned, 1, expected_count)
              ELSE cleaned)
        ELSE ListDefaults(question, expected_count, field_name)

\* _ollama_call_for_text from the response of its request on
_ollama_call_for_text(resp, field_name) ==
    IF Answered(resp) /\ StrStrip(resp.response) # <<>>
    THEN StrStrip(resp.response)
    ELSE <<"G", "e", "n", "e", "r", "a", "t", "e", "d", " ">> \o field_name

\* line.split(sep, 1): the text before the first sep and the text after it
SplitOnce(line, sep) ==
    LET i == FindFrom(line, sep, 1)
    IN  <<SubSeq(line, 1, i - 1), SubSeq(line, i + 1, Len(line))>>

Mistake(mistake, description) ==
    [mistake |-> StripBullet(StripNumbering(mistake), "-"), description |-> description]

\* Mutant of ParseMistake: the colon is looked for before the pipe.
ParseMistakeColonFirst(line) ==
    IF FindFrom(line, ":", 1) # 0
    THEN Mistake(StrStrip(SplitOnce(line, ":")[1]), StrStrip(SplitOnce(line, ":")[2]))
    ELSE IF FindFrom(line, "|", 1) # 0
    THEN Mistake(StrStrip(SplitOnce(line, "|")[1]), StrStrip(SplitOnce(line, "|")[2]))
    ELSE Mistake(line, <<"B", "e", " ", "c", "a", "r", "e", "f", "u", "l", " ", "w", "i", "t", "h", " ", "t", "h", "i", "s", " ", "a", "s", "p", "e", "c", "t", ".">>)

\* The body of "for line in lines[:expected_count]" in _ollama_call_for_mistakes
ParseMistake(line) ==
    IF FindFrom(line, "|", 1) # 0
    THEN Mistake(StrStrip(SplitOnce(line, "|")[1]), StrStrip(SplitOnce(line, "|")[2]))
    ELSE IF FindFrom(line, ":", 1) # 0
    THEN Mistake(StrStrip(SplitOnce(line, ":")[1]), StrStrip(SplitOnce(line, ":")[2]))
    ELSE Mistake(line, <<"B", "e", " ", "c", "a", "r", "e", "f", "u", "l", " ", "w", "i", "t", "h", " ", "t", "h", "i", "s", " ", "a", "s", "p", "e", "c", "t", ".">>)

FallbackMistakes == <<
    [mistake |-> <<"N", "o", "t", " ", "u", "n", "d", "e", "r", "s", "t", "a", "n", "d", "i", "n", "g", " ", "t", "h", "e", " ", "f", "u", "n", "d", "a", "m", "e", "n", "t", "a", "l", "s">>,
     description |-> <<"T", "a", "k", "e", " ", "t", "i", "m", "e", " ", "t", "o", " ", "l", "e", "a", "r", "n", " ", "t", "h", "e", " ", "b", "a", "s", "i", "c", "s", ".">>],
    [mistake |-> <<"S", "k", "i", "p", "p", "i", "n", "g", " ", "b", "e", "s", "t", " ", "p", "r", "a", "c", "t", "i", "c", "e", "s">>,
     description |-> <<"F", "o", "l", "l", "o", "w", " ", "p", "r", "o", "p", "e", "r", " ", "i", "m", "p", "l", "e", "m", "e", "n", "t", "a", "t", "i", "o", "n", " ", "g", "u", "i", "d", "e", "l", "i", "n", "e", "s", ".">>] >>

\* _ollama_call_for_mistakes from the response of its request on: no
\* response gives the empty list, a body that cannot be read the fallback
_ollama_call_for_mistakes(resp, expected_count) ==
    IF resp = NoResponse THEN <<>>
    ELSE IF ~Answered(resp) THEN SubSeq(FallbackMistakes, 1, Min(2, expected_count))
    ELSE LET lines == StrippedLines(resp.response)
             taken == SubSeq(lines, 1, Min(expected_count, Len(lines)))
         IN  [i \in 1..Len(taken) |-> ParseMistake(taken[i])]

\* _execute_task_6 after its call
WhenToUse(result) ==
    IF StrStartsWith(result, <<"U", "s", "e">>) THEN result
    ELSE IF result # <<>> THEN <<"U", "s", "e", " ">> \o result ELSE <<"U", "s", "e", " ", "w", "h", "e", "n", " ", "n", "e", "e", "d", "e", "d", ".">>

_extract_category(question) ==
    LET q_lower == StrLower(question)
    IN  IF Contains(q_lower, <<"a", "n", "g", "u", "l", "a", "r">>) THEN <<"F", "r", "a", "m", "e", "w", "o", "r", "k", "s">>
        ELSE IF Contains(q_lower, <<"r", "e", "a", "c", "t">>) THEN <<"F", "r", "a", "m", "e", "w", "o", "r", "k", "s">>
        ELSE IF Contains(q_lower, <<"h", "t", "m", "l">>) \/ Contains(q_lower, <<"<">>) THEN <<"H", "T", "M", "L">>
        ELSE IF Contains(q_lower, <<"c", "s", "s">>) \/ Contains(q_lower, <<"s", "t", "y", "l", "e">>) THEN <<"C", "S", "S">>
        ELSE IF Contains(q_lower, <<"j", "a", "v", "a", "s", "c", "r", "i", "p", "t">>) \/ Contains(q_lower, <<"j", "s">>) THEN <<"J", "a", "v", "a", "S", "c", "r", "i", "p", "t">>
        ELSE <<"W", "e", "b", " ", "D", "e", "v", "e", "l", "o", "p", "m", "e", "n", "t">>

_extract_subcategory(question) ==
    LET q_lower == StrLower(question)
    IN  IF Contains(q_lower, <<"a", "n", "g", "u", "l", "a", "r">>) THEN <<"A", "n", "g", "u", "l", "a", "r">>
        ELSE IF Contains(q_lower, <<"r", "e", "a", "c", "t">>) THEN <<"R", "e", "a", "c", "t">>
        ELSE IF Contains(q_lower, <<"t", "a", "g">>) THEN <<"T", "a", "g", "s">>
        ELSE IF Contains(q_lower, <<"f", "o", "r", "m">>) THEN <<"F", "o", "r", "m", "s">>
        ELSE IF Contains(q_lower, <<"s", "t", "y", "l", "e">>) THEN <<"S", "t", "y", "l", "i", "n", "g">>
        ELSE <<"G", "e", "n", "e", "r", "a", "l">>

-----------------------------------------------------------------------------
(* OllamaClient.process_question_multi_step: the 13 tasks and the assembly *)

\* task_results[key]
DictGet(dict, key) == dict[KeyIndex(dict, key)].value

Field(key, value) == [key |-> key, value |-> value]

\* The tasks in the order of process_question_multi_step: the key of
\* task_results, what the task calls, the items it asks for and its field_name
Task(key, kind, count, field_name) ==
    [key |-> key, kind |-> kind, count |-> count, field_name |-> field_name]

Tasks == <<
    Task("primaryQuestion", "question", 0, <<>>),
    Task("alternativeQuestions", "list", 10, <<"a", "l", "t", "e", "r", "n", "a", "t", "i", "v", "e", " ", "q", "u", "e", "s", "t", "i", "o", "n", "s">>),
    Task("answerDescriptions", "list", 4, <<"a", "n", "s", "w", "e", "r", " ", "d", "e", "s", "c", "r", "i", "p", "t", "i", "o", "n", "s">>),
    Task("summary", "text", 0, <<"s", "u", "m", "m", "a", "r", "y">>),
    Task("detailed", "text", 0, <<"d", "e", "t", "a", "i", "l", "e", "d", " ", "a", "n", "s", "w", "e", "r">>),
    Task("whenToUse", "text", 0, <<"w", "h", "e", "n", " ", "t", "o", " ", "u", "s", "e">>),
    Task("realWorldContext", "text", 0, <<"r", "e", "a", "l", " ", "w", "o", "r", "l", "d", " ", "c", "o", "n", "t", "e", "x", "t">>),
    Task("category", "category", 0, <<>>),
    Task("tags", "list", 8, <<"t", "a", "g", "s">>),
    Task("conceptTriggers", "list", 10, <<"c", "o", "n", "c", "e", "p", "t", " ", "t", "r", "i", "g", "g", "e", "r", "s">>),
    Task("naturalFollowups", "list", 10, <<"n", "a", "t", "u", "r", "a", "l", " ", "f", "o", "l", "l", "o", "w", "u", "p", "s">>),
    Task("relatedQuestions", "list", 10, <<"r", "e", "l", "a", "t", "e", "d", " ", "q", "u", "e", "s", "t", "i", "o", "n", "s">>),
    Task("commonMistakes", "mistakes", 3, <<"c", "o", "m", "m", "o", "n", " ", "m", "i", "s", "t", "a", "k", "e", "s">>) >>

\* The tasks that send a request to the backend
BackendKinds == {"list", "text", "mistakes"}

\* _execute_task_<n> from the response of its request on: the entries it
\* puts into task_results
ExecuteTask(task, question, resp) ==
    IF task.kind = "question" THEN <<Field(task.key, question)>>
    ELSE IF task.kind = "category"
    THEN <<Field("category", _extract_category(question)),
           Field("subcategory", _extract_subcategory(question)),
           Field("difficulty", <<"I", "n", "t", "e", "r", "m", "e", "d", "i", "a", "t", "e">>)>>
    ELSE IF task.kind = "list"
    THEN <<Field(task.key, _ollama_call_for_list(resp, question, task.count, task.field_name))>>
    ELSE IF task.kind = "mistakes"
    THEN <<Field(task.key, _ollama_call_for_mistakes(resp, task.count))>>
    ELSE IF task.key = "whenToUse"
    THEN <<Field(task.key, WhenToUse(_ollama_call_for_text(resp, task.field_name)))>>
    ELSE <<Field(task.key, _ollama_call_for_text(resp, task.field_name))>>

\* Mutant of Metadata: the record is marked verified.
MetadataVerified(today) == [confidence |-> "high", lastUpdated |-> today, verified |-> TRUE]

\* "confidence": "high", "lastUpdated": str(date.today()), "verified": False
Metadata(today) == [confidence |-> "high", lastUpdated |-> today, verified |-> FALSE]

\* Mutant of _assemble_final_json: the date is part of the record ID.
_assemble_final_jsonDatedKey(question, task_results, today) ==
    <<Field([slug |-> _make_id(question).slug, h |-> <<question, today>>],
            [primaryQuestion |-> question, lastUpdated |-> today])>>

\* _assemble_final_json: a dict of one key; today is date.today()
_assemble_final_json(question, task_results, today) ==
    <<Field(_make_id(question),
            [primaryQuestion      |-> DictGet(task_results, "primaryQuestion"),
             alternativeQuestions |-> DictGet(task_results, "alternativeQuestions"),
             answerDescriptions   |-> DictGet(task_results, "answerDescriptions"),
             answer               |-> [summary          |-> DictGet(task_results, "summary"),
                                       detailed         |-> DictGet(task_results, "detailed"),
                                       whenToUse        |-> DictGet(task_results, "whenToUse"),
                                       realWorldContext |-> DictGet(task_results, "realWorldContext")],
             category             |-> DictGet(task_results, "category"),
             subcategory          |-> DictGet(task_results, "subcategory"),
             difficulty           |-> DictGet(task_results, "difficulty"),
             tags                 |-> DictGet(task_results, "tags"),
             conceptTriggers      |-> DictGet(task_results, "conceptTriggers"),
             naturalFollowups     |-> DictGet(task_results, "naturalFollowups"),
             relatedQuestions     |-> DictGet(task_results, "relatedQuestions"),
             commonMistakes       |-> DictGet(task_results, "commonMistakes"),
             confidence           |-> Metadata(today).confidence,
             lastUpdated          |-> Metadata(today).lastUpdated,
             verified             |-> Metadata(today).verified])>>

\* Questions of the multi-step enrichment: one that names no topic, one with
\* topic words (long enough to become tags), one that quotes a word
QStyle == <<"I", "s", " ", "c", "s", "s", " ", "s", "t", "y", "l", "e", "?">>
QQuoted == <<"a", " ", "\"", "b", "\"", " ", "t", "a", "g", "s">>
MultiQuestions == {JA, QStyle, QQuoted}

\* Response texts.  Item lines are "item a", "item b", ...
ItemLetters == <<"a", "b", "c", "d", "e", "f", "g", "h", "i", "j", "k">>
ItemLine(k) == <<"i", "t", "e", "m", " ">> \o <<ItemLetters[k]>>

RECURSIVE ItemLines(_)
ItemLines(n) == IF n = 0 THEN <<>> ELSE IF n = 1 THEN ItemLine(1)
                ELSE ItemLines(n - 1) \o <<"\n">> \o ItemLine(n)

NumberedText == <<"1", ".", " ", "i", "t", "e", "m", " ", "a", "\n", "-", " ", "i", "t", "e", "m", " ", "b", "\n", "*", " ", "a", "b", "\n", "\"", "i", "t", "e", "m", " ", "c", "\"", "\n", "\n", " ", "1", "2", ".", "i", "t", "e", "m", " ", "d", " ">>
ShortOnlyText == <<"a", "b", "\n", "-", " ", "c", "d">>
SpacesText == <<" ", " ">>

ListTexts(count) ==
    {ItemLines(k) : k \in {0, 1, count - 1, count, count + 1}} \cup {NumberedText, ShortOnlyText}

UseText == <<"U", "s", "e", " ", "i", "t", " ", "d", "a", "i", "l", "y">>
PlainText == <<" ", "i", "t", " ", "w", "o", "r", "k", "s", " ">>
TextTexts == {UseText, PlainText, NoText, SpacesText}

MistakesText == <<"m", " ", "o", "n", "e", "|", "d", " ", "o", "n", "e", "\n", "1", ".", " ", "m", " ", "t", "w", "o", ":", " ", "d", " ", "t", "w", "o", "\n", "m", " ", "t", "h", "r", "e", "e">>
OneMistakeText == <<"-", " ", "m", " ", "o", "n", "e", " ", "|", " ", "d", ":", " ", "o", "n", "e">>
MistakeTexts == {MistakesText, OneMistakeText, NoText, MistakesText \o <<"\n">> \o MistakesText}

\* The response a task gets when the backend does what it is asked
Nominal(task) ==
    IF task.kind = "list" THEN Response(ItemLines(task.count))
    ELSE IF task.kind = "mistakes" THEN Response(MistakesText)
    ELSE Response(UseText)

UnitResponses(task) ==
    {NoResponse, BadBody}
        \cup {Response(t) : t \in IF task.kind = "list" THEN ListTexts(task.count)
                                  ELSE IF task.kind = "mistakes" THEN MistakeTexts
                                  ELSE TextTexts}

\* Number of tasks of one call whose response is not the nominal one
MaxDeviations == 1

\* date.today(), as a day number
Days == {1, 2}

MultiCall(question, has_callback) ==
    [fn |-> "process_question_multi_step", question |-> question,
     emit_callback |-> has_callback, pc |-> "tasks", task |-> 1,
     task_results |-> EmptyDict, requests |-> <<>>, deviations |-> 0,
     emitted |-> "no", today |-> 0, result |-> Pending]

MultiCalls == {MultiCall(q, cb) : q \in MultiQuestions, cb \in BOOLEAN}

\* return {"success": True, "data": final_obj, "raw_response": "ok"}
Success(final_obj) == [success |-> TRUE, data |-> final_obj]

\* The except of process_question_multi_step
Failure == [success |-> FALSE, error |-> "str(e)"]

\* task_results[...] = self._execute_task_<n>(...), tasks 1 and 8: no request
MultiLocalTask ==
    /\ call.fn = "process_question_multi_step"
    /\ call.pc = "tasks"
    /\ call.task <= Len(Tasks)
    /\ Tasks[call.task].kind \notin BackendKinds
    /\ call' = [call EXCEPT
                   !.task_results = DictUpdate(@, ExecuteTask(Tasks[call.task], call.question, NoResponse)),
                   !.task = @ + 1]
    /\ UNCHANGED <<cacheVars, appVars>>

\* task_results[...] = self._execute_task_<n>(...), a task with a request:
\* whatever comes back, the task returns a value and the next task follows.
MultiBackendTask ==
    /\ call.fn = "process_question_multi_step"
    /\ call.pc = "tasks"
    /\ call.task <= Len(Tasks)
    /\ Tasks[call.task].kind \in BackendKinds
    /\ \E resp \in UnitResponses(Tasks[call.task]) :
          /\ resp # Nominal(Tasks[call.task]) => call.deviations < MaxDeviations
          /\ call' = [call EXCEPT
                         !.task_results = DictUpdate(@, ExecuteTask(Tasks[call.task], call.question, resp)),
                         !.requests = Append(@, [task |-> call.task, resp |-> resp]),
                         !.deviations = IF resp = Nominal(Tasks[call.task]) THEN @ ELSE @ + 1,
                         !.task = @ + 1]
    /\ UNCHANGED <<cacheVars, appVars>>

\* After task 13: assemble, call emit_callback if there is one, return.  An
\* exception of the callback is caught by the except of the function.
MultiFinish ==
    /\ call.fn = "process_question_multi_step"
    /\ call.pc = "tasks"
    /\ call.task > Len(Tasks)
    /\ \E today \in Days, raises \in BOOLEAN :
          /\ raises => call.emit_callback
          /\ LET final_obj == _assemble_final_json(call.question, call.task_results, today)
                 done      == [call EXCEPT !.today = today,
                                           !.emitted = IF ~call.emit_callback THEN "no"
                                                       ELSE IF raises THEN "raised" ELSE "yes"]
             IN  call' = Returned(done, IF raises THEN Failure ELSE Success(final_obj))
    /\ UNCHANGED <<cacheVars, appVars>>

InitMulti == InitCache /\ InitOrchestrator /\ call \in MultiCalls

NextMulti == MultiLocalTask \/ MultiBackendTask \/ MultiFinish

SpecMulti == InitMulti /\ [][NextMulti]_vars

-----------------------------------------------------------------------------
(* Claims about the multi-step enrichment (SpecMulti) *)

MultiReturned == call.pc = "returned"

\* The body of the record a successful call returns
RecordBody == call.result.data[1].value

\* The usable items of a response: none without a readable response
UsableItems(resp) == IF Answered(resp) THEN CleanedLines(resp.response) ELSE <<>>

RequestsOf(kinds) == {i \in 1..Len(call.requests) : Tasks[call.requests[i].task].kind \in kinds}

\* C21: a list field for which the backend returned fewer usable items than
\* requested, none included, holds exactly those items in the final record.
C21_ShortListKeptAsIs ==
    (MultiReturned /\ call.result.success) =>
        \A i \in RequestsOf({"list"}) :
            LET task == Tasks[call.requests[i].task]
                items == UsableItems(call.requests[i].resp)
            IN  Len(items) < task.count => RecordBody[task.key] = items

CoreTextKeys == {"summary", "detailed", "whenToUse", "realWorldContext"}

\* The backend gave no text: no response after the retries, or an empty one
NoTextFrom(resp) == ~Answered(resp) \/ StrStrip(resp.response) = <<>>

\* C22: a call in which the backend gave no text for one of the four core
\* answer sub-fields does not report success.
C22_CoreFieldsRequired ==
    MultiReturned =>
        \A i \in RequestsOf({"text"}) :
            (Tasks[call.requests[i].task].key \in CoreTextKeys /\ NoTextFrom(call.requests[i].resp))
                => ~call.result.success

\* The tasks with a request, in program order
BackendTasks == SelectSeq([n \in 1..Len(Tasks) |-> n], LAMBDA n : Tasks[n].kind \in BackendKinds)

\* C23: the units are requested in program order whatever the earlier ones
\* gave, and a call whose optional list unit got no response (or one that
\* cannot be read) still returns a record, that field being a list shorter
\* than requested (the callback, if any, having returned).
C23_OptionalFailureAbsorbed ==
    /\ [i \in 1..Len(call.requests) |-> call.requests[i].task]
           = SubSeq(BackendTasks, 1, Len(call.requests))
    /\ (MultiReturned /\ call.emitted # "raised") =>
          /\ call.result.success
          /\ Len(call.requests) = Len(BackendTasks)
          /\ \A i \in RequestsOf({"list", "mistakes"}) :
                ~Answered(call.requests[i].resp) =>
                    Len(RecordBody[Tasks[call.requests[i].task].key]) < Tasks[call.requests[i].task].count

\* C23 witness: the first unit (alternativeQuestions) got no response, all
\* later units were requested and the record holds three questions for it.
C23_Witness ==
    /\ MultiReturned
    /\ call.result.success
    /\ call.requests[1].resp = NoResponse
    /\ Len(call.requests) = Len(BackendTasks)
    /\ Len(RecordBody.alternativeQuestions) = 3

SchemaFields ==
    {"primaryQuestion", "alternativeQuestions", "answerDescriptions", "answer", "category",
     "subcategory", "difficulty", "tags", "conceptTriggers", "naturalFollowups",
     "relatedQuestions", "commonMistakes", "confidence", "lastUpdated", "verified"}

\* C26: a returned record has one top-level key, the ID of the question;
\* primaryQuestion is the question as given, every schema field is there,
\* confidence is 'high', verified false and lastUpdated the day of assembly.
C26_RecordShape ==
    (MultiReturned /\ call.result.success) =>
        /\ Len(call.result.data) = 1
        /\ call.result.data[1].key = _make_id(call.question)
        /\ DOMAIN RecordBody = SchemaFields
        /\ DOMAIN RecordBody.answer = CoreTextKeys
        /\ RecordBody.primaryQuestion = call.question
        /\ RecordBody.confidence = "high"
        /\ RecordBody.verified = FALSE
        /\ RecordBody.lastUpdated = call.today

\* C26 witness: a record assembled on day 2 for the question with capitals
\* and punctuation, the summary request having failed.
C26_Witness ==
    /\ MultiReturned
    /\ call.result.success
    /\ call.question = QStyle
    /\ call.today = 2
    /\ \E i \in RequestsOf({"text"}) :
          Tasks[call.requests[i].task].key = "summary" /\ call.requests[i].resp = NoResponse

\* C27: a callback that raises does not change the outcome of the call: the
\* record assembled from the task results is returned as a success.
C27_EmissionIsAdvisory ==
    (MultiReturned /\ call.emitted = "raised") =>
        call.result = Success(_assemble_final_json(call.question, call.task_results, call.today))

-----------------------------------------------------------------------------
(* _assemble_final_json called twice on the same inputs *)

\* What every backend task of one enrichment got
ResponseProfiles == {"nominal", "none", "bad_body", "short"}

ProfileResponse(task, profile) ==
    IF profile = "nominal" THEN Nominal(task)
    ELSE IF profile = "none" THEN NoResponse
    ELSE IF profile = "bad_body" THEN BadBody
    ELSE IF task.kind = "list" THEN Response(NumberedText)
    ELSE IF task.kind = "mistakes" THEN Response(OneMistakeText)
    ELSE Response(PlainText)

\* task_results after the 13 tasks, each with the response of the profile:
\* the keys are distinct, so each assignment adds its entries at the end
RunTasks(question, profile) ==
    LET r(n) == ExecuteTask(Tasks[n], question, ProfileResponse(Tasks[n], profile))
    IN  r(1) \o r(2) \o r(3) \o r(4) \o r(5) \o r(6) \o r(7) \o r(8) \o r(9) \o r(10)
             \o r(11) \o r(12) \o r(13)

\* Number of calls on the same inputs, and the last day
MaxAssemblies == 2
MaxDay == 3

AssembleCalls ==
    {[fn |-> "_assemble_final_json", question |-> q,
      task_results |-> RunTasks(q, p), today |-> 1, outputs |-> <<>>] :
        q \in MultiQuestions, p \in ResponseProfiles}

\* final_obj = self._assemble_final_json(question, task_results)
Assemble ==
    /\ call.fn = "_assemble_final_json"
    /\ Len(call.outputs) < MaxAssemblies
    /\ call' = [call EXCEPT !.outputs =
                   Append(@, [today |-> call.today,
                              final_obj |-> _assemble_final_json(call.question, call.task_results,
                                                                 call.today)])]
    /\ UNCHANGED <<cacheVars, appVars>>

\* Midnight: date.today() moves on
DayPasses ==
    /\ call.fn = "_assemble_final_json"
    /\ call.today < MaxDay
    /\ call' = [call EXCEPT !.today = @ + 1]
    /\ UNCHANGED <<cacheVars, appVars>>

InitAssemble == InitCache /\ InitOrchestrator /\ call \in AssembleCalls

NextAssemble == Assemble \/ DayPasses

SpecAssemble == InitAssemble /\ [][NextAssemble]_vars

\* The record of a one-key dict with its date blanked
WithoutLastUpdated(final_obj) ==
    [i \in 1..Len(final_obj) |->
        [final_obj[i] EXCEPT !.value = [f \in DOMAIN @ \ {"lastUpdated"} |-> @[f]]]]

\* C25: the outputs of assembly for the same question and task results are
\* equal but for lastUpdated, and their one key is the ID computed from the
\* question alone, whatever the task results and the day.
C25_AssemblyDeterministic ==
    call.fn = "_assemble_final_json" =>
        /\ \A i, k \in DOMAIN call.outputs :
              WithoutLastUpdated(call.outputs[i].final_obj) = WithoutLastUpdated(call.outputs[k].final_obj)
        /\ \A i \in DOMAIN call.outputs :
              /\ Len(call.outputs[i].final_obj) = 1
              /\ call.outputs[i].final_obj[1].key = _make_id(call.question)

\* C25 witness: two assemblies on different days of task results in which
\* every request had failed.
C25_Witness ==
    /\ call.fn = "_assemble_final_json"
    /\ Len(call.outputs) = 2
    /\ call.outputs[1].today # call.outputs[2].today
    /\ call.outputs[1].final_obj # call.outputs[2].final_obj
    /\ call.task_results = RunTasks(call.question, "none")

-----------------------------------------------------------------------------
(* Claims about the batch output, the batch status and the master store (Spec) *)

\* The question of the item thread j is working on
CurrentQuestion(j) == jobs[j].scraped_data[threads[j].i].question

\* C24: whenever an item of a batch yields a record, the batch output holds
\* that record under the ID derived from the item's own question.
C24_KeyedByOwnQuestion ==
    [][\A j \in DOMAIN threads :
          ReturnedRecord(j) =>
              KeyIndex(jobs'[j].processed_data, _make_id(CurrentQuestion(j))) # 0]_vars

NonTerminalStatuses == {"starting", "checking_ai", "scraping", "processing"}

\* Starting -> CheckingBackend -> Processing -> {Completed | Failed}, with
\* 'scraping' between the check and processing, and Failed from anywhere
AllowedMoves ==
    {<<"starting", "checking_ai">>, <<"checking_ai", "processing">>,
     <<"checking_ai", "scraping">>, <<"scraping", "processing">>,
     <<"processing", "completed">>}
        \cup {<<s, "error">> : s \in NonTerminalStatuses}

\* C28: every change of a batch's status is a move of the state machine; in
\* particular 'processing' is entered only from the connection check (or
\* from 'scraping', which follows it).
C28_StatusOrder ==
    [][\A j \in DOMAIN jobs :
          jobs'[j].status # jobs[j].status =>
              <<jobs[j].status, jobs'[j].status>> \in AllowedMoves]_vars

\* C29: a batch whose status is 'completed' or 'error' keeps that status.
C29_TerminalIsFinal ==
    [][\A j \in DOMAIN jobs : Terminal(j) => jobs'[j].status = jobs[j].status]_vars

Keys(dict) == {dict[i].key : i \in 1..Len(dict)}

\* C30: a step that changes the master store keeps every record ID it held
\* and leaves each record of the saving batch in it under its ID.
C30_MasterAppendOnly ==
    [][master' # master =>
          /\ Keys(master) \subseteq Keys(master')
          /\ \E j \in DOMAIN threads :
                /\ threads[j].pc = "save"
                /\ threads'[j].pc # "save"
                /\ \A i \in 1..Len(jobs[j].processed_data) :
                      jobs[j].processed_data[i] \in SeqToSet(master')]_vars

-----------------------------------------------------------------------------
(* Cache keys of rephrased questions, and normalisation applied twice *)

\* Number of times _normalize_question is applied to its own output
MaxNormalizations == 2

\* Two keys: of a question for one client, of a phrasing of it for another
KeyCall(q, kind, c1, c2) ==
    [fn |-> "_generate_cache_key", kind |-> kind,
     questions |-> <<q, Rephrased(q, kind)>>, clients |-> <<c1, c2>>, keys |-> <<>>]

NormalizeCall(q) == [fn |-> "_normalize_question", question |-> q, outputs |-> <<>>]

NormalizeCalls ==
    {KeyCall(q, kind, c1, c2) : q \in BaseQuestions, kind \in PhrasingKinds,
                                c1 \in CacheClients, c2 \in CacheClients}
        \cup {NormalizeCall(q) : q \in NormQuestions}

\* cache_key = self._generate_cache_key(question, provider, model)
GenerateCacheKey ==
    /\ call.fn = "_generate_cache_key"
    /\ Len(call.keys) < 2
    /\ LET n == Len(call.keys) + 1
       IN  call' = [call EXCEPT !.keys =
                       Append(@, _generate_cache_key(call.questions[n], call.clients[n].provider,
                                                     call.clients[n].model))]
    /\ UNCHANGED <<cacheVars, appVars>>

\* normalized = self._normalize_question(text), text being the question and
\* then the text returned
Normalize ==
    /\ call.fn = "_normalize_question"
    /\ Len(call.outputs) < MaxNormalizations
    /\ call' = [call EXCEPT !.outputs =
                   Append(@, _normalize_question(IF call.outputs = <<>> THEN call.question
                                                 ELSE call.outputs[Len(call.outputs)]))]
    /\ UNCHANGED <<cacheVars, appVars>>

InitNormalize == InitCache /\ InitOrchestrator /\ call \in NormalizeCalls

NextNormalize == GenerateCacheKey \/ Normalize

SpecNormalize == InitNormalize /\ [][NextNormalize]_vars

\* C31: two phrasings of a question (differing only in outer whitespace, case,
\* trailing punctuation, runs of inner whitespace or the opener) have the same
\* cache key for the same backend and model, and the keys differ when the
\* backend or the model differs.
C31_EquivalentPhrasingsShareKey ==
    (call.fn = "_generate_cache_key" /\ Len(call.keys) = 2) =>
        (call.keys[1] = call.keys[2]) <=> (call.clients[1] = call.clients[2])

\* C39: normalising a normalised text gives the same text, and the key
\* computed from the normalised text is the key of the question.
C39_NormalizationIdempotent ==
    (call.fn = "_normalize_question" /\ Len(call.outputs) >= 2) =>
        /\ call.outputs[2] = call.outputs[1]
        /\ \A c \in CacheClients :
              _generate_cache_key(call.outputs[1], c.provider, c.model)
                  = _generate_cache_key(call.question, c.provider, c.model)
-----------------------------------------------------------------------------
(* AICache.optimize_cache *)

\* max_entries = 1000, scaled down so that caches above it are explored:
\* optimize_cache reads it only in len(cache) > max_entries and in the slice
\* sorted_entries[:max_entries].
max_entries == 2

\* Number of store_response calls and the last hour explored with optimize_cache
MaxOptStores == 4
MaxOptTime == 1

\* Mutant of InsertNewestFirst: reverse=False, the oldest entries come first.
RECURSIVE InsertOldestFirst(_, _)
InsertOldestFirst(sorted, entry) ==
    IF sorted = <<>> THEN <<entry>>
    ELSE IF Head(sorted).timestamp.t <= entry.timestamp.t
         THEN <<Head(sorted)>> \o InsertOldestFirst(Tail(sorted), entry)
         ELSE <<entry>> \o sorted

\* One step of the stable sort by timestamp with reverse=True: entry goes
\* behind every entry that is as recent or more recent.
RECURSIVE InsertNewestFirst(_, _)
InsertNewestFirst(sorted, entry) ==
    IF sorted = <<>> THEN <<entry>>
    ELSE IF Head(sorted).timestamp.t >= entry.timestamp.t
         THEN <<Head(sorted)>> \o InsertNewestFirst(Tail(sorted), entry)
         ELSE <<entry>> \o sorted

\* sorted(cache.items(), key=lambda x: x[1]['timestamp'], reverse=True); the
\* isoformat texts of datetime.now() compare as their times do.
RECURSIVE SortedEntriesFrom(_, _, _)
SortedEntriesFrom(cache, k, sorted) ==
    IF k > Len(cache) THEN sorted
    ELSE SortedEntriesFrom(cache, k + 1, InsertNewestFirst(sorted, cache[k]))

sorted_entries(cache) == SortedEntriesFrom(cache, 1, <<>>)

\* The body of the loop of optimize_cache for one provider dict
Optimized(cache) ==
    IF Len(cache) > max_entries THEN SubSeq(sorted_entries(cache), 1, max_entries) ELSE cache

\* AICache.optimize_cache(): both dicts, each written to its file if it was
\* cut (the write may fail and is then only logged)
OptimizeCache ==
    /\ \E okOpenai, okClaude \in BOOLEAN :
          /\ caches' = [openai |-> Optimized(caches.openai), claude |-> Optimized(caches.claude)]
          /\ files' = LET fs == IF Len(caches.openai) > max_entries
                                THEN _save_cache(files, caches', OPENAI, okOpenai) ELSE files
                      IN  IF Len(caches.claude) > max_entries
                          THEN _save_cache(fs, caches', CLAUDE, okClaude) ELSE fs
    /\ lastOp' = [op |-> "optimize", caches |-> caches, files |-> files]
    /\ UNCHANGED <<now, bootFiles, bootTime, storeLog>>
    /\ UNCHANGED <<appVars, call>>

\* Three questions with three different keys, for either dict
OptQuestions == {QA, QB, QF}
OptClients == {Client(OPENAI, M1), Client(CLAUDE, M1)}

OptStore ==
    /\ Len(storeLog) < MaxOptStores
    /\ \E q \in OptQuestions, c \in OptClients, saveOk \in BOOLEAN :
          Store(q, c.provider, c.model, Record(q, Len(storeLog) + 1), saveOk)
    /\ UNCHANGED <<appVars, call>>

\* An hour passes
OptTick ==
    /\ now < MaxOptTime
    /\ now' = now + 1
    /\ lastOp' = [op |-> "other"]
    /\ UNCHANGED <<caches, files, bootFiles, bootTime, storeLog>>
    /\ UNCHANGED <<appVars, call>>

NextOptimize == OptStore \/ OptTick \/ OptimizeCache

SpecOptimize == InitCacheOnly /\ [][NextOptimize]_vars

-----------------------------------------------------------------------------
(* The similarity fallback among several candidates (SpecCache) *)

\* The dict the last lookup scanned
ScannedCache == caches[CacheOf(lastOp.provider)]

\* Jaccard similarity of q with q1 is greater than with q2 (word sets of the
\* normalised texts; an empty word set gives similarity 0)
JaccardGreater(q, q1, q2) ==
    LET inter(x) == Cardinality(WordSet(q) \cap WordSet(x))
        union(x) == Cardinality(WordSet(q) \cup WordSet(x))
    IN  /\ inter(q1) > 0
        /\ (inter(q2) = 0 \/ inter(q1) * union(q2) > inter(q2) * union(q1))

\* The entries of the scanned dict whose question is above the threshold
AboveThreshold ==
    {i \in 1..Len(ScannedCache) :
        JaccardAboveThreshold(lastOp.question, ScannedCache[i].original_question)}

\* C33: a lookup without exact entry returns the record of the entry that is
\* above the threshold, at least as similar as every other such entry and
\* more similar than every such entry inserted before it; with no entry above
\* the threshold it returns None.
C33_BestSimilarFirstOnTies ==
    (IsLookup /\ KeyIndex(ScannedCache, LookupKey) = 0) =>
        IF AboveThreshold = {} THEN lastOp.result = None
        ELSE \E i \in AboveThreshold :
                /\ lastOp.result = ScannedCache[i].response
                /\ \A k \in AboveThreshold :
                      /\ ~JaccardGreater(lastOp.question, ScannedCache[k].original_question,
                                         ScannedCache[i].original_question)
                      /\ k < i => JaccardGreater(lastOp.question, ScannedCache[i].original_question,
                                                 ScannedCache[k].original_question)

\* C33 witness (highest): two entries above the threshold, the second the
\* more similar one, and the lookup returned the second.
C33_Witness ==
    /\ IsLookup
    /\ KeyIndex(ScannedCache, LookupKey) = 0
    /\ AboveThreshold = {1, 2}
    /\ JaccardGreater(lastOp.question, ScannedCache[2].original_question,
                      ScannedCache[1].original_question)
    /\ lastOp.result = ScannedCache[2].response

\* A tie: two entries equally similar to the question and above the
\* threshold, and the lookup returned the first.
C33_TieReached ==
    /\ IsLookup
    /\ KeyIndex(ScannedCache, LookupKey) = 0
    /\ AboveThreshold = {1, 2}
    /\ ~JaccardGreater(lastOp.question, ScannedCache[2].original_question,
                       ScannedCache[1].original_question)
    /\ ~JaccardGreater(lastOp.question, ScannedCache[1].original_question,
                       ScannedCache[2].original_question)
    /\ lastOp.result = ScannedCache[1].response
    /\ ScannedCache[1].response # ScannedCache[2].response
-----------------------------------------------------------------------------
(* OllamaClient._ask_json: the validation-and-repair loop *)

\* Largest max_attempts explored (the default is 3)
MaxAttemptsBound == 3

AskPrompts == {<<"R", "e", "t", "u", "r", "n", " ", "J", "S", "O", "N">>, <<"T", "h", "e", " ", "p", "r", "e", "v", "i", "o", "u", "s", " ", "a", "t", "t", "e", "m", "p", "t", " ", "f", "a", "i", "l", "e", "d", ".", " ", "P", "l", "e", "a", "s", "e", " ", "t", "r", "y", " ", "a", "g", "a", "i", "n", ":", "\n", "R", "e", "t", "u", "r", "n", " ", "J", "S", "O", "N">>}

\* expect_type, and the type of a parsed value: _extract_json returns a dict
\* or a list
JsonTypes == {"dict", "list"}

\* What self._simple_ollama_call(prompt, timeout=timeout) returns: a parsed
\* value, or a failure with its error text
AskResults ==
    {[success |-> TRUE, data |-> [type |-> t, value |-> v]] : t \in JsonTypes, v \in {1, 2}}
        \cup {[success |-> FALSE, error |-> e] : e \in {"Could not parse JSON", "HTTP 500"}}

\* isinstance(data, expect_type) for a successful result
TypeMatches(res, expect_type) == res.success /\ res.data.type = expect_type

RepairWrapper == <<"T", "h", "e", " ", "p", "r", "e", "v", "i", "o", "u", "s", " ", "a", "t", "t", "e", "m", "p", "t", " ", "f", "a", "i", "l", "e", "d", ".", " ", "P", "l", "e", "a", "s", "e", " ", "t", "r", "y", " ", "a", "g", "a", "i", "n", ":", "\n">>

\* Mutant of RepairPrompt: the wrapper goes around the prompt just sent.
RepairPromptNested(prompt, original_prompt) == RepairWrapper \o prompt

\* prompt = f"The previous attempt failed. Please try again:\n{original_prompt}"
RepairPrompt(prompt, original_prompt) == RepairWrapper \o original_prompt

AskCall(prompt, expect_type, max_attempts) ==
    [fn |-> "_ask_json", original_prompt |-> prompt, prompt |-> prompt,
     expect_type |-> expect_type, max_attempts |-> max_attempts,
     attempt |-> 1, pc |-> "loop", sent |-> <<>>, result |-> Pending]

AskCalls ==
    {AskCall(p, t, n) : p \in AskPrompts, t \in JsonTypes, n \in 0..MaxAttemptsBound}

\* raise ValueError(f"[{step}] Failed after {max_attempts} attempts. ...")
AskFailure == [raised |-> "ValueError"]

\* One iteration of "for attempt in range(1, max_attempts + 1)": the call, the
\* type check and, if attempts are left, the repair prompt.
AskAttempt ==
    /\ call.fn = "_ask_json"
    /\ call.pc = "loop"
    /\ call.attempt <= call.max_attempts
    /\ \E res \in AskResults :
          LET sent == [call EXCEPT !.sent = Append(@, [prompt |-> call.prompt, res |-> res])]
          IN  call' = IF TypeMatches(res, call.expect_type)
                      THEN Returned(sent, res.data)
                      ELSE [sent EXCEPT
                               !.prompt = IF call.attempt < call.max_attempts
                                          THEN RepairPrompt(call.prompt, call.original_prompt)
                                          ELSE call.prompt,
                               !.attempt = @ + 1]
    /\ UNCHANGED <<cacheVars, appVars>>

\* The loop is over without a return
AskRaise ==
    /\ call.fn = "_ask_json"
    /\ call.pc = "loop"
    /\ call.attempt > call.max_attempts
    /\ call' = Returned(call, AskFailure)
    /\ UNCHANGED <<cacheVars, appVars>>

InitAsk == InitCache /\ InitOrchestrator /\ call \in AskCalls

NextAsk == AskAttempt \/ AskRaise

SpecAsk == InitAsk /\ [][NextAsk]_vars

\* C34: at most max_attempts calls are made, each after the first one only
\* when the results before it did not have the expected type; the first call
\* sends the prompt and every later one the repair wrapper around the prompt
\* as given; the call returns the value of the expected type its last call
\* gave, or fails after max_attempts calls none of which gave one.
C34_BoundedRepair ==
    call.fn = "_ask_json" =>
        /\ Len(call.sent) <= call.max_attempts
        /\ \A i \in 1..Len(call.sent) :
              /\ call.sent[i].prompt = IF i = 1 THEN call.original_prompt
                                       ELSE RepairWrapper \o call.original_prompt
              /\ i < Len(call.sent) => ~TypeMatches(call.sent[i].res, call.expect_type)
        /\ call.pc = "returned" =>
              IF call.result = AskFailure
              THEN /\ Len(call.sent) = call.max_attempts
                   /\ \A i \in 1..Len(call.sent) : ~TypeMatches(call.sent[i].res, call.expect_type)
              ELSE /\ call.sent # <<>>
                   /\ TypeMatches(call.sent[Len(call.sent)].res, call.expect_type)
                   /\ call.result = call.sent[Len(call.sent)].res.data

\* C34 witness: with max_attempts 3, a value of the wrong type and a parse
\* failure were followed by a third call that sent the wrapper once and gave
\* a value of the expected type, which was returned.
C34_Witness ==
    /\ call.fn = "_ask_json"
    /\ call.pc = "returned"
    /\ call.max_attempts = 3
    /\ Len(call.sent) = 3
    /\ call.sent[1].res.success
    /\ ~call.sent[2].res.success
    /\ call.sent[3].prompt = RepairWrapper \o call.original_prompt
    /\ call.result = call.sent[3].res.data
-----------------------------------------------------------------------------
(* OllamaClient._ollama_call_for_list as a function of the response *)

\* Largest expected_count explored (the tasks ask for 4, 8 and 10 items)
MaxListCount == 3

MarkersText == <<"-", " ", "1", ".", " ", "i", "t", "e", "m", " ", "e", "\n", "*", "*", "i", "t", "e", "m", " ", "f", "*", "*", "\n", "'", "\"", "i", "t", "e", "m", " ", "g", "\"", "'", "\n", "*", " ", "a", "b", "\n", "\"", "1", "2", ".", " ", "i", "t", "e", "m", " ", "h", "\"">>

ListFieldNames == {<<"a", "l", "t", "e", "r", "n", "a", "t", "i", "v", "e", " ", "q", "u", "e", "s", "t", "i", "o", "n", "s">>, <<"t", "a", "g", "s">>, <<"c", "o", "n", "c", "e", "p", "t", " ", "t", "r", "i", "g", "g", "e", "r", "s">>}

ListResponses ==
    {NoResponse, BadBody}
        \cup {Response(t) : t \in {ItemLines(k) : k \in 0..(MaxListCount + 1)}
                                      \cup {NumberedText, ShortOnlyText, MarkersText, SpacesText}}

ListCall(resp, question, expected_count, field_name) ==
    [fn |-> "_ollama_call_for_list", resp |-> resp, question |-> question,
     expected_count |-> expected_count, field_name |-> field_name,
     pc |-> "call", result |-> Pending]

ListCalls ==
    {ListCall(r, q, n, f) : r \in ListResponses, q \in {JA, QQuoted},
                            n \in 1..MaxListCount, f \in ListFieldNames}

OllamaCallForList ==
    /\ call.fn = "_ollama_call_for_list"
    /\ call.pc = "call"
    /\ call' = Returned(call, _ollama_call_for_list(call.resp, call.question,
                                                    call.expected_count, call.field_name))
    /\ UNCHANGED <<cacheVars, appVars>>

InitList == InitCache /\ InitOrchestrator /\ call \in ListCalls

NextList == OllamaCallForList

SpecList == InitList /\ [][NextList]_vars

\* The line begins with an enumeration marker: digits and a dot, a dash or
\* an asterisk
LeadingMarker(line) ==
    \/ Head(line) \in {"-", "*"}
    \/ \E n \in 1..(Len(line) - 1) :
          /\ \A i \in 1..n : line[i] \in DecimalDigits
          /\ line[n + 1] = "."

\* item is line without a leading enumeration marker and without the quotes
\* that wrap it: what is cut off in front are marker characters, whitespace
\* and quotes, what is cut off behind are quotes, and a marker the line
\* begins with is cut off.
Cleans(line, item) ==
    /\ item # <<>>
    /\ Head(item) \notin Quotes
    /\ item[Len(item)] \notin Quotes
    /\ \E i \in 1..Len(line) :
          /\ i + Len(item) - 1 <= Len(line)
          /\ item = SubSeq(line, i, i + Len(item) - 1)
          /\ \A k \in 1..(i - 1) :
                line[k] \in DecimalDigits \cup {".", "-", "*"} \cup Whitespace \cup Quotes
          /\ \A k \in (i + Len(item))..Len(line) : line[k] \in Quotes
          /\ LeadingMarker(line) => i > 1

\* The lines of the response text of the call
ListLines == IF Answered(call.resp) THEN StrippedLines(call.resp.response) ELSE <<>>

\* The lines with more than 3 characters besides marker and quotes
UsableLineNumbers ==
    {n \in 1..Len(ListLines) :
        \E i \in 1..Len(ListLines[n]), j \in 1..Len(ListLines[n]) :
            /\ j - i + 1 > 3
            /\ Cleans(ListLines[n], SubSeq(ListLines[n], i, j))}

\* The k-th usable line
UsableLine(k) ==
    ListLines[CHOOSE n \in UsableLineNumbers :
                  Cardinality({m \in UsableLineNumbers : m < n}) = k - 1]

\* C35: a list returned has at most expected_count items; when the response
\* has a usable line, the list is the first expected_count usable lines in
\* their order (all of them when there are fewer), each without its leading
\* enumeration marker and its wrapping quotes and longer than 3 characters.
C35_ListCleanup ==
    (call.fn = "_ollama_call_for_list" /\ call.pc = "returned") =>
        /\ Len(call.result) <= call.expected_count
        /\ UsableLineNumbers # {} =>
              /\ Len(call.result) = Min(call.expected_count, Cardinality(UsableLineNumbers))
              /\ \A k \in 1..Len(call.result) :
                    /\ Cleans(UsableLine(k), call.result[k])
                    /\ Len(call.result[k]) > 3

\* C35 witness: the four usable lines of a text with a numbered, a dashed,
\* a starred and a quoted line and an unusable one between them were cut to
\* the three asked for.
C35_Witness ==
    /\ call.fn = "_ollama_call_for_list"
    /\ call.pc = "returned"
    /\ call.resp = Response(NumberedText)
    /\ call.expected_count = 3
    /\ call.result = <<<<"i", "t", "e", "m", " ", "a">>, <<"i", "t", "e", "m", " ", "b">>, <<"i", "t", "e", "m", " ", "c">>>>
-----------------------------------------------------------------------------
(* OllamaClient._ollama_call_for_mistakes as a function of the response *)

\* Largest expected_count explored (task 13 asks for 3 mistakes); the texts
\* have up to two lines
MaxMistakeCount == 2

\* Lines: the pipe format the prompt asks for, a colon, a colon before a
\* pipe, a pipe before a colon, no delimiter, numbered and dashed lines
MistakeLines ==
    {<<"m", " ", "o", "n", "e", "|", "d", " ", "o", "n", "e">>, <<"1", ".", " ", "m", " ", "t", "w", "o", ":", " ", "d", " ", "t", "w", "o">>, <<"m", ":", " ", "x", " ", "|", " ", "d", " ", "t", "h", "r", "e", "e">>,
     <<"-", " ", "m", " ", "f", "o", "u", "r", " ", "|", " ", "d", ":", " ", "f", "o", "u", "r">>, <<"m", " ", "f", "i", "v", "e">>, <<"2", ".", " ", "m", " ", "s", "i", "x">>}

MistakeLineTexts ==
    {<<>>} \cup MistakeLines
           \cup {a \o <<"\n">> \o b : a \in MistakeLines, b \in MistakeLines}

MistakeResponses == {NoResponse, BadBody} \cup {Response(t) : t \in MistakeLineTexts}

MistakesCall(resp, expected_count) ==
    [fn |-> "_ollama_call_for_mistakes", resp |-> resp, expected_count |-> expected_count,
     pc |-> "call", result |-> Pending]

MistakesCalls == {MistakesCall(r, n) : r \in MistakeResponses, n \in 1..MaxMistakeCount}

OllamaCallForMistakes ==
    /\ call.fn = "_ollama_call_for_mistakes"
    /\ call.pc = "call"
    /\ call' = Returned(call, _ollama_call_for_mistakes(call.resp, call.expected_count))
    /\ UNCHANGED <<cacheVars, appVars>>

InitMistakes == InitCache /\ InitOrchestrator /\ call \in MistakesCalls

NextMistakes == OllamaCallForMistakes

SpecMistakes == InitMistakes /\ [][NextMistakes]_vars

\* The position of the first character of chars in line, 0 if there is none
FirstOf(line, chars) ==
    IF \E i \in 1..Len(line) : line[i] \in chars
    THEN CHOOSE i \in 1..Len(line) :
             line[i] \in chars /\ \A k \in 1..(i - 1) : line[k] \notin chars
    ELSE 0

\* The first delimiter occurring in the line, pipe or colon
FirstDelimiter(line) == FirstOf(line, {"|", ":"})

\* The first pipe of a line that has one, else the first colon
PipeElseColon(line) ==
    IF FirstOf(line, {"|"}) # 0 THEN FirstOf(line, {"|"}) ELSE FirstOf(line, {":"})

\* mistake is text without a leading number or dash
MistakeTextOf(text, mistake) ==
    \E i \in 1..(Len(text) + 1) :
        /\ mistake = SubSeq(text, i, Len(text))
        /\ \A k \in 1..(i - 1) : text[k] \in DecimalDigits \cup {".", "-"} \cup Whitespace
        /\ (text # <<>> /\ Head(text) \in DecimalDigits \cup {"-"}) => i > 1

GenericDescription == <<"B", "e", " ", "c", "a", "r", "e", "f", "u", "l", " ", "w", "i", "t", "h", " ", "t", "h", "i", "s", " ", "a", "s", "p", "e", "c", "t", ".">>

\* element is line split at position at (not split when at is 0)
SplitInto(line, at, element) ==
    IF at = 0
    THEN /\ MistakeTextOf(line, element.mistake)
         /\ element.description = GenericDescription
    ELSE /\ MistakeTextOf(StrStrip(SubSeq(line, 1, at - 1)), element.mistake)
         /\ element.description = StrStrip(SubSeq(line, at + 1, Len(line)))

MistakeLinesOf == IF Answered(call.resp) THEN StrippedLines(call.resp.response) ELSE <<>>

\* The list has at most expected_count elements with the keys mistake and
\* description, and from a response that can be read one element for each
\* of the first expected_count lines, in their order.
MistakesListShape ==
    /\ Len(call.result) <= call.expected_count
    /\ \A i \in 1..Len(call.result) : DOMAIN call.result[i] = {"mistake", "description"}
    /\ Answered(call.resp) => Len(call.result) = Min(call.expected_count, Len(MistakeLinesOf))

-----------------------------------------------------------------------------
(* Claims about the client of a batch (Spec) *)

\* C37: every enrichment call of a batch is made on the client that was
\* current when the batch was started, whatever /api/set-ai-provider does
\* meanwhile, and the provider named in the event after the call is the
\* provider of that client.
C37_BatchKeepsItsClient ==
    \A j \in DOMAIN hist :
        \A k \in 1..Len(hist[j].enriched) :
            /\ hist[j].enriched[k].client = hist[j].selected
            /\ hist[j].enriched[k].ai_provider = hist[j].enriched[k].client.provider
-----------------------------------------------------------------------------
(* Claims about the counters of a batch (Spec) *)

\* The messages the loop appends for an item: the else branch and the
\* except of the iteration
ItemErrors == {"Failed to process", "Error processing question"}

ItemErrorCount(job) == Len(SelectSeq(job.errors, LAMBDA e : e \in ItemErrors))

\* The items the loop is through with: enumerate is at item i
ItemsHandled(j) == threads[j].i - 1

-----------------------------------------------------------------------------
(* One process lifetime: stores, lookups and the clock *)

NextLifetime == LoadStore \/ LoadLookup \/ Tick

SpecLifetime == InitCacheOnly /\ [][NextLifetime]_vars

\* The entry the dict of the last lookup holds under the key looked up
LookedUpEntries ==
    {i \in 1..Len(caches[CacheOf(lastOp.provider)]) :
        caches[CacheOf(lastOp.provider)][i].key = LookupKey}

\* C40: while the process runs no step takes a key out of a dict, every
\* store made is still in its dict, and a lookup under the exact key of an
\* entry returns its response whatever the age of the entry.
C40_ExpiryOnlyAtLoad ==
    /\ [][\A f \in DOMAIN caches : Keys(caches[f]) \subseteq Keys(caches'[f])]_vars
    /\ [](\A i \in 1..Len(storeLog) :
             StoreKey(i) \in Keys(caches[CacheOf(storeLog[i].provider)]))
    /\ [](IsLookup =>
             \A i \in LookedUpEntries :
                 lastOp.result = caches[CacheOf(lastOp.provider)][i].response)

\* C40 witness: a lookup returned the response of an entry stored max_age or
\* longer ago.
C40_Witness ==
    /\ IsLookup
    /\ \E i \in LookedUpEntries :
          /\ now - caches[CacheOf(lastOp.provider)][i].timestamp.t >= MaxAgeHours
          /\ lastOp.result = caches[CacheOf(lastOp.provider)][i].response

====
